---- MODULE Spec2Model ----
(***************************************************************************)
(* Authentication and access-control core of promptaries:                  *)
(*   - validateWebexAccess / parseAccessControlConfig (access-control.ts)  *)
(*   - isTokenExpiringSoon / calculateTokenExpiry /                        *)
(*     refreshWebexAccessToken (token-refresh.ts)                          *)
(*   - the signIn, jwt and session callbacks (auth.ts)                     *)
(*   - the route guard proxy / isPublicPath (proxy.ts)                     *)
(*   - createAuthAuditLog / formatAuditLogMessage and the audit queries    *)
(*     (audit-logger.ts)                                                   *)
(*   - validateAuthEnv (env-validation.ts)                                 *)
(*   - createPrompt / toggleStar (the prompts collection)                  *)
(*                                                                         *)
(* JavaScript strings are sequences of one-character strings, so that      *)
(* trim, toLowerCase, split, startsWith and percent-encoding are computed  *)
(* character by character.  The JavaScript value undefined of a string     *)
(* variable is the one-element sequence Undefined, which no character      *)
(* sequence equals.                                                        *)
(***************************************************************************)
EXTENDS Integers, Sequences, FiniteSets, TLC

VARIABLES
    env,      \* process.env: the three access-control settings
    cookie,   \* the session cookie of one browser: NoToken or the JWT
    now,      \* Math.floor(Date.now() / 1000)
    last,     \* what the last handled sign-in or request did and returned
    guard,    \* one guard call on an arbitrary resolved session
    access,   \* one validateWebexAccess call on arbitrary arguments
    audit,    \* the auth_audit_logs collection, the console, and the last
              \* createAuthAuditLog call
    expiry,   \* one isTokenExpiringSoon call on an arbitrary argument
    refresh,  \* one refreshWebexAccessToken call on arbitrary arguments
    startup,  \* one validateAuthEnv call on an arbitrary process.env
    parse,    \* one parseAccessControlConfig call on arbitrary settings
    race,     \* two requests of one session in flight at the same time
    stars     \* one prompt document and the toggleStar calls in flight

vars ==
    <<env, cookie, now, last, guard, access, audit, expiry, refresh, startup,
      parse, race, stars>>

(***************************************************************************)
(* Strings                                                                 *)
(***************************************************************************)
Undefined == <<"undefined">>

\* !s for a string-or-undefined s
Falsy(s) == s = Undefined \/ s = <<>>

StringsUpTo(chars, n) == UNION {[1..k -> chars] : k \in 0..n}

IsWhitespace(c) == c = " "

RECURSIVE TrimStart(_)
TrimStart(s) ==
    IF s = <<>> THEN <<>>
    ELSE IF IsWhitespace(Head(s)) THEN TrimStart(Tail(s)) ELSE s

RECURSIVE TrimEnd(_)
TrimEnd(s) ==
    IF s = <<>> THEN <<>>
    ELSE IF IsWhitespace(s[Len(s)]) THEN TrimEnd(SubSeq(s, 1, Len(s) - 1)) ELSE s

\* String.prototype.trim
Trim(s) == TrimEnd(TrimStart(s))

LowerChar(c) ==
    CASE c = "A" -> "a"
      [] c = "B" -> "b"
      [] c = "O" -> "o"
      [] c = "R" -> "r"
      [] OTHER -> c

UpperChar(c) ==
    CASE c = "a" -> "A"
      [] c = "b" -> "B"
      [] c = "o" -> "O"
      [] c = "r" -> "R"
      [] OTHER -> c

\* String.prototype.toLowerCase / toUpperCase
ToLowerCase(s) == [i \in 1..Len(s) |-> LowerChar(s[i])]
ToUpperCase(s) == [i \in 1..Len(s) |-> UpperChar(s[i])]

\* String.prototype.split(sep) for a one-character separator: always at
\* least one segment, empty segments kept.
RECURSIVE SplitFrom(_, _, _)
SplitFrom(s, sep, cur) ==
    IF s = <<>> THEN <<cur>>
    ELSE IF Head(s) = sep THEN <<cur>> \o SplitFrom(Tail(s), sep, <<>>)
    ELSE SplitFrom(Tail(s), sep, Append(cur, Head(s)))

Split(s, sep) == SplitFrom(s, sep, <<>>)

\* String.prototype.startsWith
StartsWith(s, prefix) ==
    Len(s) >= Len(prefix) /\ SubSeq(s, 1, Len(prefix)) = prefix

\* A match of any entry that x ends with.
Includes_endsWith(list, x) ==
    \E i \in 1..Len(list) :
        /\ Len(x) >= Len(list[i])
        /\ SubSeq(x, Len(x) - Len(list[i]) + 1, Len(x)) = list[i]

\* Array.prototype.includes
Includes(list, x) == \E i \in 1..Len(list) : list[i] = x

(***************************************************************************)
(* access-control.ts                                                       *)
(***************************************************************************)
NoReason == "none"

\* emailParts[0] in place of emailParts[emailParts.length - 1]
EmailDomain_firstPart(normalizedEmail) ==
    Split(normalizedEmail, "@")[1]

\* 2. Extract email domain (part after last @)
EmailDomain(normalizedEmail) ==
    LET emailParts == Split(normalizedEmail, "@")
    IN  emailParts[Len(emailParts)]

\* The domain layer tested before the organization layer.
AndDecision_domainFirst(hasOrgRestriction, orgIdValid, hasDomainRestriction, domainValid) ==
    IF hasDomainRestriction /\ ~domainValid
    THEN [allowed |-> FALSE, reason |-> "UnauthorizedDomain"]
    ELSE IF hasOrgRestriction /\ ~orgIdValid
    THEN [allowed |-> FALSE, reason |-> "UnauthorizedOrganization"]
    ELSE [allowed |-> TRUE, reason |-> NoReason]

\* 6. AND mode: both must pass (if configured)
AndDecision(hasOrgRestriction, orgIdValid, hasDomainRestriction, domainValid) ==
    IF hasOrgRestriction /\ ~orgIdValid
    THEN [allowed |-> FALSE, reason |-> "UnauthorizedOrganization"]
    ELSE IF hasDomainRestriction /\ ~domainValid
    THEN [allowed |-> FALSE, reason |-> "UnauthorizedDomain"]
    ELSE [allowed |-> TRUE, reason |-> NoReason]

\* The layer that failed named in the denial.
OrDecision_namedLayer(orgIdValid, domainValid) ==
    IF orgIdValid \/ domainValid
    THEN [allowed |-> TRUE, reason |-> NoReason]
    ELSE [allowed |-> FALSE, reason |-> "UnauthorizedOrganization"]

\* 6. OR mode: either can pass
OrDecision(orgIdValid, domainValid) ==
    IF orgIdValid \/ domainValid
    THEN [allowed |-> TRUE, reason |-> NoReason]
    ELSE [allowed |-> FALSE, reason |-> "AccessDenied"]

validateWebexAccess(email, orgId, config) ==
    \* 1. Check email exists and is not empty
    IF Falsy(email) \/ Trim(email) = <<>>
    THEN [allowed |-> FALSE, reason |-> "NoEmail"]
    ELSE
      LET normalizedEmail == ToLowerCase(Trim(email))
          emailDomain == EmailDomain(normalizedEmail)
          \* 3.
          hasOrgRestriction == Len(config.allowedOrgIds) > 0
          hasDomainRestriction == Len(config.allowedDomains) > 0
          \* 4. and 5.
          orgIdValid ==
              ~hasOrgRestriction
              \/ (~Falsy(orgId) /\ Includes(config.allowedOrgIds, orgId))
          domainValid ==
              ~hasDomainRestriction
              \/ Includes(config.allowedDomains, emailDomain)
      IN  IF emailDomain = <<>>
          THEN [allowed |-> FALSE, reason |-> "UnauthorizedDomain"]
          ELSE IF ~hasOrgRestriction /\ ~hasDomainRestriction
          THEN [allowed |-> TRUE, reason |-> NoReason]
          \* 6. AND / OR
          ELSE IF config.mode = "AND"
          THEN AndDecision(hasOrgRestriction, orgIdValid,
                           hasDomainRestriction, domainValid)
          ELSE OrDecision(orgIdValid, domainValid)

\* The map without the filter.
RECURSIVE TrimmedNonEmpty_keepsEmpty(_, _)
TrimmedNonEmpty_keepsEmpty(segments, lower) ==
    IF segments = <<>> THEN <<>>
    ELSE LET t == Trim(Head(segments))
         IN  <<IF lower THEN ToLowerCase(t) ELSE t>>
             \o TrimmedNonEmpty_keepsEmpty(Tail(segments), lower)

\* .split(',').map(trim [+ toLowerCase]).filter(length > 0)
RECURSIVE TrimmedNonEmpty(_, _)
TrimmedNonEmpty(segments, lower) ==
    IF segments = <<>> THEN <<>>
    ELSE LET t == Trim(Head(segments))
             v == IF lower THEN ToLowerCase(t) ELSE t
             rest == TrimmedNonEmpty(Tail(segments), lower)
         IN  IF Len(v) > 0 THEN <<v>> \o rest ELSE rest

parseAccessControlConfig(e) ==
    LET orgIdsRaw == IF Falsy(e.ALLOWED_WEBEX_ORG_IDS) THEN <<>>
                     ELSE e.ALLOWED_WEBEX_ORG_IDS
        domainsRaw == IF Falsy(e.ALLOWED_EMAIL_DOMAINS) THEN <<>>
                      ELSE e.ALLOWED_EMAIL_DOMAINS
        modeRaw == IF e.ACCESS_CONTROL_MODE = Undefined THEN Undefined
                   ELSE ToUpperCase(Trim(e.ACCESS_CONTROL_MODE))
    IN  [allowedOrgIds |-> TrimmedNonEmpty(Split(orgIdsRaw, ","), FALSE),
         allowedDomains |-> TrimmedNonEmpty(Split(domainsRaw, ","), TRUE),
         mode |-> IF modeRaw = <<"O", "R">> THEN "OR" ELSE "AND"]

(***************************************************************************)
(* token-refresh.ts                                                        *)
(*                                                                         *)
(* Opaque credentials (access tokens, refresh tokens, client id and        *)
(* secret, user and organization ids) are one-element sequences holding    *)
(* the credential's name; <<>> is the empty string.  An optional number    *)
(* is <<>> (undefined) or <<n>>.                                           *)
(***************************************************************************)
TOKEN_EXPIRY_BUFFER_SECONDS == 300

RefreshAccessTokenError == "RefreshAccessTokenError"
NoError == "undefined"

\* The threshold itself counted as expiring soon.
isTokenExpiringSoon_inclusive(expiresAt, nowSec) ==
    IF expiresAt = <<>> \/ expiresAt[1] = 0 \/ expiresAt[1] < 0
    THEN TRUE
    ELSE expiresAt[1] <= nowSec + TOKEN_EXPIRY_BUFFER_SECONDS

isTokenExpiringSoon(expiresAt, nowSec) ==
    IF expiresAt = <<>> \/ expiresAt[1] = 0 \/ expiresAt[1] < 0
    THEN TRUE
    ELSE LET currentTimeSeconds == nowSec
             expiryThreshold == currentTimeSeconds + TOKEN_EXPIRY_BUFFER_SECONDS
         IN  expiresAt[1] < expiryThreshold

\* The lifetime taken for the expiry time.
calculateTokenExpiry_lifetimeOnly(expiresIn, nowSec) == expiresIn

calculateTokenExpiry(expiresIn, nowSec) == nowSec + expiresIn

\* data.refresh_token alone
NextRefreshToken_providerOnly(provided, current) == provided

\* data.refresh_token || refreshToken
NextRefreshToken(provided, current) ==
    IF Falsy(provided) THEN current ELSE provided

\* A failure result without the error tag.
RefreshFailure_untagged(message) ==
    [success |-> FALSE, accessToken |-> Undefined, refreshToken |-> Undefined,
     expiresIn |-> <<>>, error |-> NoError, message |-> message]

RefreshFailure(message) ==
    [success |-> FALSE, accessToken |-> Undefined, refreshToken |-> Undefined,
     expiresIn |-> <<>>, error |-> RefreshAccessTokenError, message |-> message]

\* The catch block returning a failure without the error tag.
refreshWebexAccessToken_untaggedCatch(refreshToken, clientId, clientSecret, fetched) ==
    IF Falsy(refreshToken) \/ Falsy(clientId) \/ Falsy(clientSecret)
    THEN RefreshFailure("Missing required parameters for token refresh")
    ELSE IF fetched.kind = "throws"
    THEN [RefreshFailure("Token refresh failed") EXCEPT !.error = NoError]
    ELSE IF fetched.kind = "http_error"
    THEN RefreshFailure("Webex token refresh failed with status")
    ELSE IF fetched.kind = "bad_json"
    THEN RefreshFailure("Invalid JSON response from Webex")
    ELSE IF Falsy(fetched.access_token)
    THEN RefreshFailure("Webex response missing access_token")
    ELSE IF fetched.expires_in = <<>> \/ fetched.expires_in[1] = 0
    THEN RefreshFailure("Webex response missing expires_in")
    ELSE [success |-> TRUE,
          accessToken |-> fetched.access_token,
          refreshToken |-> NextRefreshToken(fetched.refresh_token, refreshToken),
          expiresIn |-> fetched.expires_in,
          error |-> NoError, message |-> "undefined"]

\* fetched is what the POST to the Webex token endpoint does: it throws
\* (network error, timeout), answers non-2xx, answers 2xx with a body that
\* is not JSON, or answers 2xx with a JSON body.
refreshWebexAccessToken(refreshToken, clientId, clientSecret, fetched) ==
    IF Falsy(refreshToken) \/ Falsy(clientId) \/ Falsy(clientSecret)
    THEN RefreshFailure("Missing required parameters for token refresh")
    ELSE IF fetched.kind = "throws"
    THEN RefreshFailure("Token refresh failed")
    ELSE IF fetched.kind = "http_error"
    THEN RefreshFailure("Webex token refresh failed with status")
    ELSE IF fetched.kind = "bad_json"
    THEN RefreshFailure("Invalid JSON response from Webex")
    ELSE IF Falsy(fetched.access_token)
    THEN RefreshFailure("Webex response missing access_token")
    ELSE IF fetched.expires_in = <<>> \/ fetched.expires_in[1] = 0
    THEN RefreshFailure("Webex response missing expires_in")
    ELSE [success |-> TRUE,
          accessToken |-> fetched.access_token,
          refreshToken |-> NextRefreshToken(fetched.refresh_token, refreshToken),
          expiresIn |-> fetched.expires_in,
          error |-> NoError, message |-> "undefined"]

(***************************************************************************)
(* auth.ts                                                                 *)
(***************************************************************************)
AUTH_WEBEX_ID == <<"client-id">>
AUTH_WEBEX_SECRET == <<"client-secret">>
DEFAULT_EXPIRES_IN == 1209600

NoToken == [present |-> FALSE]
NoSession == [present |-> FALSE]
NoAccount == [present |-> FALSE]

\* The token NextAuth hands to the jwt callback on a sign-in: a new one,
\* with none of the fields the callback adds.
FreshToken ==
    [present |-> TRUE, accessToken |-> Undefined, refreshToken |-> Undefined,
     expiresAt |-> 0, provider |-> "undefined", userId |-> Undefined,
     orgId |-> Undefined, webexId |-> Undefined, error |-> NoError]

\* user.email || webexProfile?.emails?.[0]
SignInEmail(user, profile) ==
    IF ~Falsy(user.email) THEN user.email ELSE profile.email0

\* The callback letting every sign-in through.
signIn_allowAll(user, account, profile, e) == TRUE

\* callbacks.signIn: TRUE lets the sign-in proceed, FALSE denies it.
signIn(user, account, profile, e) ==
    IF ~account.present \/ account.provider # "webex"
    THEN TRUE
    ELSE LET email == SignInEmail(user, profile)
             orgId == profile.orgId
             accessConfig == parseAccessControlConfig(e)
             result == validateWebexAccess(email, orgId, accessConfig)
         IN  result.allowed

\* The failure branch also dropping the access token it could not renew.
RefreshFailed_dropsAccessToken(token, result) ==
    [token EXCEPT !.error = result.error, !.accessToken = Undefined]

\* callbacks.jwt, the refresh failed: token.error = result.error
RefreshFailed(token, result) ==
    [token EXCEPT !.error = result.error]

\* callbacks.jwt.  account.present is "account && profile": the initial
\* sign-in.  fetched is used only if a refresh is attempted.
jwt(token, user, account, profile, nowSec, fetched) ==
    IF account.present
    THEN [token EXCEPT
             !.accessToken = account.access_token,
             !.refreshToken = account.refresh_token,
             !.expiresAt =
                 calculateTokenExpiry(
                     IF account.expires_in = <<>> \/ account.expires_in[1] = 0
                     THEN DEFAULT_EXPIRES_IN ELSE account.expires_in[1], nowSec),
             !.provider = "webex",
             !.userId = IF Falsy(user.id) THEN <<>> ELSE user.id,
             !.orgId = profile.orgId,
             !.webexId = profile.id]
    ELSE IF isTokenExpiringSoon(<<token.expiresAt>>, nowSec)
    THEN LET result == refreshWebexAccessToken(token.refreshToken,
                           AUTH_WEBEX_ID, AUTH_WEBEX_SECRET, fetched)
         IN  IF result.success
             THEN [token EXCEPT !.accessToken = result.accessToken,
                                !.refreshToken = result.refreshToken,
                                !.expiresAt =
                                    calculateTokenExpiry(result.expiresIn[1], nowSec),
                                !.error = NoError]
             ELSE RefreshFailed(token, result)
    ELSE token

\* The callback renaming the token's tag to the one the guard and the UI
\* compare with.
session_renamedTag(token) ==
    [present |-> TRUE,
     user |-> [id |-> token.userId, provider |-> token.provider,
               orgId |-> token.orgId, webexId |-> token.webexId],
     accessToken |-> token.accessToken,
     error |-> IF token.error = RefreshAccessTokenError THEN "RefreshTokenError"
               ELSE token.error]

\* The callback copying the refresh token into the session as well.
session_withRefreshToken(token) ==
    [present |-> TRUE,
     user |-> [id |-> token.userId, provider |-> token.provider,
               orgId |-> token.orgId, webexId |-> token.webexId],
     accessToken |-> token.accessToken,
     refreshToken |-> token.refreshToken,
     error |-> token.error]

\* callbacks.session
session(token) ==
    [present |-> TRUE,
     user |-> [id |-> token.userId, provider |-> token.provider,
               orgId |-> token.orgId, webexId |-> token.webexId],
     accessToken |-> token.accessToken,
     error |-> token.error]

\* auth(): no cookie, no session; else the jwt callback runs on the
\* cookie's token, the session callback on its result, and the result is
\* the cookie's new token.
auth(tok, nowSec, fetched) ==
    IF ~tok.present
    THEN [session |-> NoSession, token |-> tok]
    ELSE LET t == jwt(tok, Undefined, NoAccount, Undefined, nowSec, fetched)
         IN  [session |-> session(t), token |-> t]

(***************************************************************************)
(* proxy.ts                                                                *)
(***************************************************************************)
LOGIN == <<"/", "l", "o", "g", "i", "n">>
API_AUTH_PREFIX == <<"/", "a", "p", "i", "/", "a", "u", "t", "h", "/">>
PUBLIC_PATHS == <<LOGIN>>
SESSION_ERROR_TAG == "RefreshTokenError"

\* application/x-www-form-urlencoded serializer of URLSearchParams
FormEncodeChar(c) ==
    CASE c = "/" -> <<"%", "2", "F">>
      [] c = "?" -> <<"%", "3", "F">>
      [] c = "=" -> <<"%", "3", "D">>
      [] c = "&" -> <<"%", "2", "6">>
      [] c = "%" -> <<"%", "2", "5">>
      [] c = "+" -> <<"%", "2", "B">>
      [] c = " " -> <<"+">>
      [] OTHER -> <<c>>

RECURSIVE FormEncode(_)
FormEncode(s) ==
    IF s = <<>> THEN <<>> ELSE FormEncodeChar(Head(s)) \o FormEncode(Tail(s))

\* URLSearchParams.set(name, value): replaces the value of an existing
\* name in place, else appends the pair.
ParamsSet(params, name, value) ==
    IF \E i \in 1..Len(params) : params[i].name = name
    THEN [i \in 1..Len(params) |->
             IF params[i].name = name THEN [name |-> name, value |-> value]
             ELSE params[i]]
    ELSE Append(params, [name |-> name, value |-> value])

RECURSIVE SerializeParams(_)
SerializeParams(params) ==
    IF params = <<>> THEN <<>>
    ELSE FormEncode(params[1].name) \o <<"=">> \o FormEncode(params[1].value)
         \o (IF Len(params) > 1 THEN <<"&">> ELSE <<>>)
         \o SerializeParams(Tail(params))

\* The href of new URL('/login', request.url) with its search parameters,
\* without the origin (the origin is the request's own).
LoginHref(params) ==
    LOGIN \o (IF params = <<>> THEN <<>> ELSE <<"?">> \o SerializeParams(params))

ERROR_KEY == <<"e", "r", "r", "o", "r">>
CALLBACK_URL_KEY == <<"c", "a", "l", "l", "b", "a", "c", "k", "U", "r", "l">>
SESSION_EXPIRED == <<"S", "e", "s", "s", "i", "o", "n", "E", "x", "p", "i", "r", "e", "d">>

Next200 == [kind |-> "next", status |-> 200, params |-> <<>>, location |-> <<>>]
Redirect307(params) ==
    [kind |-> "redirect", status |-> 307, params |-> params,
     location |-> LoginHref(params)]

\* Only the exact-match list.
isPublicPath_exactOnly(pathname) ==
    Includes(PUBLIC_PATHS, pathname)

isPublicPath(pathname) ==
    \/ Includes(PUBLIC_PATHS, pathname)
    \/ StartsWith(pathname, API_AUTH_PREFIX)

\* `${pathname}` alone
CallbackUrl_pathOnly(pathname, search) == pathname

\* `${pathname}${request.nextUrl.search}`
CallbackUrl(pathname, search) == pathname \o search

\* The comparison made with the tag the jwt callback stores.
SessionExpired_jwtTag(sess) ==
    sess.present /\ sess.error = RefreshAccessTokenError

\* session?.error === 'RefreshTokenError'
SessionExpired(sess) == sess.present /\ sess.error = SESSION_ERROR_TAG

\* proxy(request): resolved is what auth() does and returns if it is
\* called; authCalls counts the calls.
proxy(pathname, search, resolved) ==
    IF isPublicPath(pathname)
    THEN [response |-> Next200, authCalls |-> 0]
    ELSE LET sess == resolved.session
         IN  IF SessionExpired(sess)
             THEN [response |->
                       Redirect307(
                           ParamsSet(ParamsSet(<<>>, ERROR_KEY, SESSION_EXPIRED),
                                     CALLBACK_URL_KEY, CallbackUrl(pathname, search))),
                   authCalls |-> 1]
             ELSE IF ~sess.present
             THEN [response |->
                       Redirect307(
                           ParamsSet(<<>>, CALLBACK_URL_KEY, CallbackUrl(pathname, search))),
                   authCalls |-> 1]
             ELSE [response |-> Next200, authCalls |-> 1]

(***************************************************************************)
(* audit-logger.ts                                                         *)
(*                                                                         *)
(* Actions, error texts and labels are strings.  A Date is the clock       *)
(* reading it holds, an optional Date <<>> or <<reading>>.                 *)
(***************************************************************************)
NoAction == "undefined"
MISSING_ACTION_ERROR == "Missing required field: action"
UNKNOWN_ERROR == "Unknown error"
NOT_AVAILABLE == <<"N", "/", "A">>

NoResult == [success |-> FALSE, error |-> "undefined", insertedId |-> <<>>]

\* The label formatAuditLogMessage prints for the action.
ActionLabel(action) ==
    CASE action = "sign_in_success" -> "SIGN-IN SUCCESS"
      [] action = "sign_in_failed" -> "SIGN-IN FAILED"
      [] action = "sign_out" -> "SIGN-OUT"
      [] action = "access_denied" -> "ACCESS DENIED"
      [] action = "token_refresh_success" -> "TOKEN REFRESH SUCCESS"
      [] action = "token_refresh_failed" -> "TOKEN REFRESH FAILED"
      [] action = "session_expired" -> "SESSION EXPIRED"
      [] action = "user_created" -> "USER CREATED"
      [] OTHER -> action

\* The line as its parts: the ISO text of the timestamp, the label, the
\* email or N/A, and the organization and the reason where the action's
\* format prints them.
formatAuditLogMessage(log) ==
    [timestamp |-> <<"ISO", log.timestamp[1]>>,
     label |-> ActionLabel(log.action),
     email |-> IF Falsy(log.email) THEN NOT_AVAILABLE ELSE log.email,
     orgId |-> IF log.action \in {"sign_in_success", "access_denied", "user_created"}
               THEN (IF Falsy(log.orgId) THEN NOT_AVAILABLE ELSE log.orgId)
               ELSE <<>>,
     reason |-> IF log.action \in {"sign_in_failed", "access_denied",
                                   "token_refresh_failed"}
                THEN (IF log.reason \in {"undefined", ""} THEN "Unknown"
                      ELSE log.reason)
                ELSE "",
     ip |-> log.ipAddress]

\* The validation of the required field left out.
ActionMissing_never(data) == FALSE

\* !data.action
ActionMissing(data) == data.action \in {NoAction, ""}

\* The thrown value's text taken whatever the value is.
CaughtMessage_unguarded(thrown) == thrown.message

\* error instanceof Error ? error.message : 'Unknown error'
CaughtMessage(thrown) ==
    IF thrown.isError THEN thrown.message ELSE UNKNOWN_ERROR

EntryTimestamp_alwaysNow(data, nowSec) == <<nowSec>>

\* timestamp: data.timestamp || new Date()  (a Date is never falsy)
EntryTimestamp(data, nowSec) ==
    IF data.timestamp = <<>> THEN <<nowSec>> ELSE data.timestamp

\* createAuthAuditLog(db, data) at clock reading nowSec.  store is the
\* auth_audit_logs collection of db: its documents, the number of
\* insertOne calls made on it so far, and what the next insertOne does
\* (inserts, or throws or rejects with the value thrown).  The value is
\* the result returned, the store afterwards, and the lines written to
\* the console.
createAuthAuditLog(store, data, nowSec) ==
    IF ActionMissing(data)
    THEN [result |-> [NoResult EXCEPT !.error = MISSING_ACTION_ERROR],
          store |-> store, console |-> <<>>]
    ELSE LET auditLog ==
                 [data EXCEPT !.timestamp = EntryTimestamp(data, nowSec)]
             called == [store EXCEPT !.insertCalls = @ + 1]
         IN  IF store.insertOne.kind = "inserts"
             THEN [result |-> [success |-> TRUE, error |-> "undefined",
                               insertedId |-> <<Len(store.documents) + 1>>],
                   store |-> [called EXCEPT !.documents = Append(@, auditLog)],
                   console |-> <<[stream |-> "log",
                                  line |-> formatAuditLogMessage(auditLog)]>>]
             ELSE [result |-> [NoResult EXCEPT
                                  !.error = CaughtMessage(store.insertOne.thrown)],
                   store |-> called,
                   console |-> <<[stream |-> "error",
                                  line |-> [label |-> "[AUDIT LOG ERROR]",
                                            thrown |-> store.insertOne.thrown]]>>]

DEFAULT_LIMIT == 100

\* .find(filter).sort({timestamp: -1}).limit(limit).toArray(): the arrays
\* the store may answer, documents of equal timestamp in either order.
\* hits are the positions of the documents the filter matches; limit(0)
\* is no limit.
FindSortedLimited(store, hits, limit) ==
    LET docs == store.documents
        n == Cardinality(hits)
        kept == IF limit = 0 \/ limit > n THEN n ELSE limit
        orders == {o \in [1..n -> hits] :
                      /\ \A a, b \in 1..n : a # b => o[a] # o[b]
                      /\ \A a, b \in 1..n :
                             a < b => docs[o[a]].timestamp[1]
                                          >= docs[o[b]].timestamp[1]}
    IN  {[k \in 1..kept |-> docs[o[k]]] : o \in orders}

getAuditLogsByUserId(store, userId, limit) ==
    FindSortedLimited(
        store,
        {i \in 1..Len(store.documents) : store.documents[i].userId = userId},
        limit)

getAuditLogsByEmail(store, email, limit) ==
    FindSortedLimited(
        store,
        {i \in 1..Len(store.documents) : store.documents[i].email = email},
        limit)

getRecentAuditLogs(store, limit) ==
    FindSortedLimited(store, 1..Len(store.documents), limit)

(***************************************************************************)
(* The prompts collection: createPrompt and toggleStar                     *)
(***************************************************************************)
\* createPrompt: the star fields of the document inserted
createPrompt == [starCount |-> 0, starredBy |-> <<>>]

\* prompt.starredBy.some((id) => id.equals(userObjectId))
IsStarredBy(prompt, userId) ==
    \E i \in 1..Len(prompt.starredBy) : prompt.starredBy[i] = userId

\* updateOne with $pull: { starredBy: user }, $inc: { starCount: -1 }:
\* every occurrence of user is removed.
Unstar(prompt, userId) ==
    [starCount |-> prompt.starCount - 1,
     starredBy |-> SelectSeq(prompt.starredBy, LAMBDA id : id # userId)]

\* updateOne with $push: { starredBy: user }, $inc: { starCount: 1 }
Star(prompt, userId) ==
    [starCount |-> prompt.starCount + 1,
     starredBy |-> Append(prompt.starredBy, userId)]

(***************************************************************************)
(* env-validation.ts                                                       *)
(***************************************************************************)
REQUIRED_VARS ==
    <<"AUTH_SECRET", "NEXTAUTH_URL", "AUTH_WEBEX_ID", "AUTH_WEBEX_SECRET",
      "MONGODB_URI">>
MIN_SECRET_LENGTH == 32
MONGODB_SCHEME == <<"m", "o", "n", "g", "o", "d", "b", ":", "/", "/">>
MONGODB_SRV_SCHEME == <<"m", "o", "n", "g", "o", "d", "b", "+", "s", "r", "v", ":", "/", "/">>

AsciiAlpha ==
    {"a", "b", "c", "d", "e", "f", "g", "h", "i", "j", "k", "l", "m", "n",
     "o", "p", "q", "r", "s", "t", "u", "v", "w", "x", "y", "z"}
AsciiDigit == {"0", "1", "2", "3", "4", "5", "6", "7", "8", "9"}
SPECIAL_SCHEMES == {<<"h", "t", "t", "p">>, <<"h", "t", "t", "p", "s">>, <<"w", "s">>, <<"w", "s", "s">>, <<"f", "t", "p">>}

\* The position of the first character of s that is in chars, 0 if none.
FirstOf(s, chars) ==
    IF \E i \in 1..Len(s) : s[i] \in chars
    THEN CHOOSE i \in 1..Len(s) :
             s[i] \in chars /\ \A j \in 1..(i - 1) : s[j] \notin chars
    ELSE 0

\* The position of the last character of s that is in chars, 0 if none.
LastOf(s, chars) ==
    IF \E i \in 1..Len(s) : s[i] \in chars
    THEN CHOOSE i \in 1..Len(s) :
             s[i] \in chars /\ \A j \in (i + 1)..Len(s) : s[j] \notin chars
    ELSE 0

RECURSIVE SkipSlashes(_)
SkipSlashes(s) ==
    IF s # <<>> /\ Head(s) \in {"/", "\\"} THEN SkipSlashes(Tail(s)) ELSE s

\* new URL(raw) without a base does not throw.  Leading and trailing
\* spaces are stripped; a scheme (a letter, then letters, digits, "+",
\* "-" or ".", then ":") is required; behind a special scheme the host
\* must not be empty and must hold no space, and a port must be digits.
ParsesAsUrl(raw) ==
    LET s == Trim(raw)
        colon == FirstOf(s, {":"})
        scheme == SubSeq(s, 1, colon - 1)
        rest == SkipSlashes(SubSeq(s, colon + 1, Len(s)))
        stop == FirstOf(rest, {"/", "?", "#"})
        authority == IF stop = 0 THEN rest ELSE SubSeq(rest, 1, stop - 1)
        portAt == LastOf(authority, {":"})
        host == IF portAt = 0 THEN authority ELSE SubSeq(authority, 1, portAt - 1)
        port == IF portAt = 0 THEN <<>>
                ELSE SubSeq(authority, portAt + 1, Len(authority))
    IN  /\ colon > 1
        /\ scheme[1] \in AsciiAlpha
        /\ \A i \in 2..Len(scheme) :
               scheme[i] \in AsciiAlpha \cup AsciiDigit \cup {"+", "-", "."}
        /\ scheme \in SPECIAL_SCHEMES
               => /\ host # <<>>
                  /\ \A i \in 1..Len(host) : host[i] # " "
                  /\ \A i \in 1..Len(port) : port[i] \in AsciiDigit
                  /\ Len(port) <= 5

\* Only the first missing variable reported.
MissingVars_firstOnly(e) ==
    LET all == SelectSeq(REQUIRED_VARS, LAMBDA v : Falsy(e[v]))
    IN  IF all = <<>> THEN <<>> ELSE <<all[1]>>

\* for (const varName of requiredVars) if (!process.env[varName]) push
MissingVars(e) == SelectSeq(REQUIRED_VARS, LAMBDA v : Falsy(e[v]))

NoThrow ==
    [threw |-> FALSE, error |-> "none", missingVars |-> <<>>,
     invalidFormats |-> <<>>, warnings |-> <<>>]

\* validateAuthEnv() on process.env = e: whether it throws, the Error's
\* heading and the lines it lists, and the warnings written before.
validateAuthEnv(e) ==
    LET missingVars == MissingVars(e)
    IN  IF Len(missingVars) > 0
        THEN [NoThrow EXCEPT
                 !.threw = TRUE,
                 !.error = "Missing required environment variables for authentication",
                 !.missingVars = missingVars]
        ELSE
          LET secretWarning ==
                  IF Len(e.AUTH_SECRET) < MIN_SECRET_LENGTH
                  THEN <<"AUTH_SECRET should be at least 32 characters long">>
                  ELSE <<>>
              invalidFormats ==
                  (IF ParsesAsUrl(e.NEXTAUTH_URL) THEN <<>>
                   ELSE <<"NEXTAUTH_URL must be a valid URL">>)
                  \o (IF ~StartsWith(e.MONGODB_URI, MONGODB_SCHEME)
                         /\ ~StartsWith(e.MONGODB_URI, MONGODB_SRV_SCHEME)
                      THEN <<"MONGODB_URI must start with mongodb:// or mongodb+srv://">>
                      ELSE <<>>)
              hasOrgIds == ~Falsy(e.ALLOWED_WEBEX_ORG_IDS)
              hasEmailDomains == ~Falsy(e.ALLOWED_EMAIL_DOMAINS)
              accessControlMode == e.ACCESS_CONTROL_MODE
          IN  IF Len(invalidFormats) > 0
              THEN [NoThrow EXCEPT
                       !.threw = TRUE,
                       !.error = "Invalid environment variable formats",
                       !.invalidFormats = invalidFormats,
                       !.warnings = secretWarning]
              ELSE [NoThrow EXCEPT
                       !.warnings =
                           secretWarning
                           \o (IF ~hasOrgIds /\ ~hasEmailDomains
                               THEN <<"No access control configured">>
                               ELSE <<>>)
                           \o (IF ~Falsy(accessControlMode)
                                  /\ accessControlMode # <<"A", "N", "D">>
                                  /\ accessControlMode # <<"O", "R">>
                               THEN <<"ACCESS_CONTROL_MODE must be either 'AND' or 'OR'">>
                               ELSE <<>>)]

(***************************************************************************)
(* Bounds and input sets                                                   *)
(***************************************************************************)
MaxTicks == 2
MaxEmailLen == 3
MaxPathLen == 3
MaxQueryLen == 2
MaxAuditCalls == 2
MaxSkew == 20
MaxSettingLen == 4
MaxRequests == 2
MaxStarCalls == 3

TickSteps == {200}

O1 == <<"o", "1">>
O2 == <<"o", "2">>
DomA == <<"a", ".", "b">>
DomB == <<"b">>

EmailChars == {"a", "A", "b", "@", " "}

\* Every string up to MaxEmailLen, and the shapes of the tests.
Emails ==
    StringsUpTo(EmailChars, MaxEmailLen)
    \cup {Undefined, <<"a", "@", "a", ".", "b">>, <<"b", "@", "b">>, <<"A", "@", "A", ".", "B">>, <<"a", "@", "@", "b">>, <<"a", "@">>,
            <<"a", "@", "b", ".", "a", ".", "b">>}

OrgIdInputs == {Undefined, <<>>, O1, O2}

Modes == {"AND", "OR"}

Configs ==
    [allowedOrgIds : {<<>>, <<O1>>, <<O2, O1>>},
     allowedDomains : {<<>>, <<DomA>>, <<DomB, DomA>>, << <<"a">> >>},
     mode : Modes]

\* process.env settings as written by an operator
UnsetEnv ==
    [ALLOWED_WEBEX_ORG_IDS |-> Undefined, ALLOWED_EMAIL_DOMAINS |-> Undefined,
     ACCESS_CONTROL_MODE |-> Undefined]

Envs ==
    {UnsetEnv,
     [UnsetEnv EXCEPT !.ALLOWED_WEBEX_ORG_IDS = <<"o", "1">>],
     [UnsetEnv EXCEPT !.ALLOWED_EMAIL_DOMAINS = <<" ", "A", ".", "b", " ", ",">>,
                      !.ACCESS_CONTROL_MODE = <<"O", "R">>],
     [UnsetEnv EXCEPT !.ALLOWED_WEBEX_ORG_IDS = <<"o", "1", ",", ",", "o", "2">>,
                      !.ALLOWED_EMAIL_DOMAINS = <<"a", ".", "b", ",", "b">>,
                      !.ACCESS_CONTROL_MODE = <<" ", "o", "r">>],
     [UnsetEnv EXCEPT !.ALLOWED_WEBEX_ORG_IDS = <<"o", "1">>,
                      !.ALLOWED_EMAIL_DOMAINS = <<"a", ".", "b", ",", "b">>,
                      !.ACCESS_CONTROL_MODE = <<"A", "N", "D">>]}

Users == [id : {<<"user-1">>}, email : {Undefined, <<"a", "@", "a", ".", "b">>, <<"a", "@">>}]

Profiles ==
    [id : {<<"webex-1">>}, orgId : {Undefined, O1},
     email0 : {Undefined, <<"b", "@", "b">>}]

Accounts ==
    [present : {TRUE}, provider : {"webex"}, access_token : {<<"at0">>},
     refresh_token : {Undefined, <<"rt0">>},
     expires_in : {<<>>, <<200>>}]

\* What the POST to the token endpoint can do.
Fetches ==
    [kind : {"throws", "http_error", "bad_json"}, access_token : {Undefined},
     refresh_token : {Undefined}, expires_in : {<<>>}]
    \cup [kind : {"json"}, access_token : {Undefined, <<"at1">>},
          refresh_token : {Undefined, <<"rt1">>},
          expires_in : {<<>>, <<0>>, <<200>>, <<600>>}]

\* The same outcomes on the session's requests, one response of each kind.
MainFetches ==
    {f \in Fetches :
        \/ f.kind \in {"throws", "http_error"}
        \/ /\ f.kind = "json"
           /\ f.expires_in \in {<<>>, <<600>>}
           /\ f.access_token = Undefined => f.refresh_token = Undefined
           /\ f.access_token = Undefined => f.expires_in = <<600>>}

PathChars == {"/", "a"}

Paths ==
    {p \in StringsUpTo(PathChars, MaxPathLen) : p # <<>> /\ p[1] = "/"}
    \cup {LOGIN, LOGIN \o <<"/">>, API_AUTH_PREFIX, API_AUTH_PREFIX \o <<"a">>,
          <<"/", "a", "p", "i", "/", "a", "u", "t", "h">>, <<"/", "l", "i", "b", "r", "a", "r", "y">>, <<"/", "p", "r", "o", "m", "p", "t", "s", "/", "1">>}

QueryChars == {"a", "=", "&"}

\* request.nextUrl.search: empty, or "?" and a non-empty query
Searches ==
    {<<>>}
    \cup {<<"?">> \o q : q \in StringsUpTo(QueryChars, MaxQueryLen) \ {<<>>}}
    \cup {<<"?", "v", "=", "d", "&", "t", "=", "h">>, <<"?", "a", "+", "b", " ", "%">>}

MainPaths == {LOGIN, <<"/", "l", "i", "b", "r", "a", "r", "y">>}
MainSearches == {<<>>, <<"?", "a", "=", "1">>}

\* What the next insertOne on the collection does.
Inserts == [kind |-> "inserts", thrown |-> [isError |-> FALSE, message |-> "undefined"]]

InsertBehaviours ==
    {Inserts}
    \cup [kind : {"throws", "rejects"},
          thrown : {[isError |-> TRUE, message |-> "Database connection failed"]}]
    \cup {[kind |-> "rejects", thrown |-> [isError |-> FALSE, message |-> "undefined"]]}

\* The entries handed to createAuthAuditLog: with and without an action,
\* with the optional fields and the timestamp given or left out.
AuditInputs ==
    [action : {NoAction, "", "access_denied", "token_refresh_failed"},
     email : {<<"a", "@", "a", ".", "b">>}, orgId : {O2},
     reason : {"UnauthorizedDomain"}, ipAddress : {"203.0.113.195"},
     userId : {"u1"}, timestamp : {<<>>}]
    \cup [action : {NoAction, "", "access_denied", "token_refresh_failed"},
          email : {Undefined}, orgId : {Undefined},
          reason : {"undefined"}, ipAddress : {"unknown"},
          userId : {"undefined"}, timestamp : {<<0>>}]

\* The limits handed to the audit queries: one entry, and the default.
QueryLimits == {1, DEFAULT_LIMIT}

\* Clock readings and expiry times around the refresh threshold.
ExpiryNows == {0, 1000, 1735732800}

ExpiresAtInputs(nowSec) ==
    {<<>>, <<-1>>, <<-300>>, <<0>>}
    \cup {<<nowSec + d>> :
            d \in ((TOKEN_EXPIRY_BUFFER_SECONDS - MaxSkew)
                       ..(TOKEN_EXPIRY_BUFFER_SECONDS + MaxSkew))
                  \cup {-60, 240, 600, DEFAULT_EXPIRES_IN}}

\* The token endpoint's answers, one with an empty refresh_token added.
RefreshFetches ==
    Fetches
    \cup [kind : {"json"}, access_token : {Undefined, <<>>, <<"at1">>},
          refresh_token : {<<>>}, expires_in : {<<>>, <<600>>}]

RefreshTokenInputs == {Undefined, <<>>, <<"rt0">>}
ClientIdInputs == {Undefined, AUTH_WEBEX_ID}
ClientSecretInputs == {<<>>, AUTH_WEBEX_SECRET}

\* process.env as validateAuthEnv reads it
SecretOfLength(n) == [i \in 1..n |-> "s"]

StartupEnvs ==
    [AUTH_SECRET : {Undefined, <<>>, SecretOfLength(5),
                    SecretOfLength(MIN_SECRET_LENGTH - 1),
                    SecretOfLength(MIN_SECRET_LENGTH)},
     NEXTAUTH_URL : {Undefined, <<>>,
                     <<"h", "t", "t", "p", ":", "/", "/", "l", "o", "c", "a", "l", "h", "o", "s", "t", ":", "3", "0", "0", "0">>,
                     <<"h", "t", "t", "p", "s", ":", "/", "/", "a", ".", "b", "/", "x">>,
                     <<"n", "o", "t", "-", "a", "-", "u", "r", "l">>,
                     <<"l", "o", "c", "a", "l", "h", "o", "s", "t", ":", "3", "0", "0", "0">>,
                     <<"h", "t", "t", "p", ":", "/", "/">>,
                     <<"/", "l", "o", "g", "i", "n">>,
                     <<"h", "t", "t", "p", ":", "/", "/", "a", " ", "b">>,
                     <<"h", "t", "t", "p", ":", "/", "/", "a", ":", "x">>},
     AUTH_WEBEX_ID : {Undefined, AUTH_WEBEX_ID},
     AUTH_WEBEX_SECRET : {<<>>, AUTH_WEBEX_SECRET},
     MONGODB_URI : {Undefined,
                    <<"m", "o", "n", "g", "o", "d", "b", ":", "/", "/", "h", "/", "t">>,
                    <<"m", "o", "n", "g", "o", "d", "b", "+", "s", "r", "v", ":", "/", "/", "h">>,
                    <<"p", "o", "s", "t", "g", "r", "e", "s", ":", "/", "/", "h">>,
                    <<"m", "o", "n", "g", "o", "d", "b", ":", "/", "h">>,
                    <<" ", "m", "o", "n", "g", "o", "d", "b", ":", "/", "/", "h">>,
                    <<"h", "?", "m", "o", "n", "g", "o", "d", "b", ":", "/", "/">>},
     ALLOWED_WEBEX_ORG_IDS : {Undefined, O1},
     ALLOWED_EMAIL_DOMAINS : {<<>>, DomA},
     ACCESS_CONTROL_MODE : {Undefined, <<"A", "N", "D">>, <<"O", "R">>, <<"o", "r">>}]

\* The settings as an operator may write them.
SettingChars == {"a", "A", ",", " "}

ListSettings ==
    StringsUpTo(SettingChars, MaxSettingLen)
    \cup {Undefined, <<"o", "1", ",", ",", "o", "2">>, <<" ", "o", "1", " ", ",", " ", "O", "2", " ">>,
          <<"A", ".", "b", ",", " ", "B", " ", ",", "a">>}

ModeSettings ==
    {Undefined, <<>>, <<"O", "R">>, <<"A", "N", "D">>, <<"o", "r">>, <<" ", "O", "R", " ">>, <<"X", "O", "R">>,
     <<"O", "r">>, <<"O", " ", "R">>, <<" ">>}

\* One setting varied at a time, the other two as in a usual deployment.
ParseEnvs ==
    [ALLOWED_WEBEX_ORG_IDS : ListSettings, ALLOWED_EMAIL_DOMAINS : {<<"A", ".", "b", ",", " ", "B", " ", ",", "a">>},
     ACCESS_CONTROL_MODE : {<<"A", "N", "D">>}]
    \cup [ALLOWED_WEBEX_ORG_IDS : {<<"o", "1", ",", ",", "o", "2">>}, ALLOWED_EMAIL_DOMAINS : ListSettings,
          ACCESS_CONTROL_MODE : {Undefined}]
    \cup [ALLOWED_WEBEX_ORG_IDS : {Undefined, <<"o", "1", ",", ",", "o", "2">>},
          ALLOWED_EMAIL_DOMAINS : {Undefined, <<"A", ".", "b", ",", " ", "B", " ", ",", "a">>},
          ACCESS_CONTROL_MODE : ModeSettings]

(***************************************************************************)
(* The session of one browser: sign-in, requests through the guard, time   *)
(***************************************************************************)
Idle ==
    [op |-> "none", pathname |-> <<>>, search |-> <<>>, response |-> Next200,
     authCalls |-> 0, hadToken |-> FALSE, errorBefore |-> NoError,
     refresh |-> "none", email |-> Undefined, orgId |-> Undefined,
     returned |-> FALSE]

GuardIdle ==
    [phase |-> "idle", pathname |-> <<>>, search |-> <<>>, session |-> NoSession,
     response |-> Next200, authCalls |-> 0]

AccessIdle ==
    [phase |-> "idle", email |-> Undefined, orgId |-> Undefined,
     config |-> [allowedOrgIds |-> <<>>, allowedDomains |-> <<>>, mode |-> "AND"],
     result |-> [allowed |-> FALSE, reason |-> NoReason]]

NoData ==
    [action |-> NoAction, email |-> Undefined, orgId |-> Undefined,
     reason |-> "undefined", ipAddress |-> "unknown",
     userId |-> "undefined", timestamp |-> <<>>]

AuditIdle ==
    [calls |-> 0,
     store |-> [documents |-> <<>>, insertCalls |-> 0, insertOne |-> Inserts],
     console |-> <<>>, data |-> NoData, result |-> NoResult,
     query |-> "none", found |-> <<>>]

ExpiryIdle == [phase |-> "idle", expiresAt |-> <<>>, result |-> FALSE]

StartupIdle == [phase |-> "idle", env |-> <<>>, result |-> NoThrow]
ParseIdle ==
    [phase |-> "idle", env |-> UnsetEnv,
     result |-> [allowedOrgIds |-> <<>>, allowedDomains |-> <<>>, mode |-> "AND"]]
RaceIdle ==
    [phase |-> "idle", mode |-> "single_use", expiresIn |-> <<>>,
     valid |-> {}, issued |-> 0, req |-> <<>>]
StarsIdle ==
    [phase |-> "idle", prompt |-> createPrompt, call |-> <<>>]

RefreshIdle ==
    [phase |-> "idle", refreshToken |-> Undefined, clientId |-> Undefined,
     clientSecret |-> Undefined, fetched |-> CHOOSE f \in Fetches : TRUE,
     result |-> RefreshFailure("undefined")]

\* What the jwt callback run by auth() did about a refresh.
RefreshOutcome(tok, nowSec, fetched) ==
    IF ~tok.present \/ ~isTokenExpiringSoon(<<tok.expiresAt>>, nowSec)
    THEN "none"
    ELSE IF refreshWebexAccessToken(tok.refreshToken, AUTH_WEBEX_ID,
                                    AUTH_WEBEX_SECRET, fetched).success
    THEN "ok" ELSE "failed"

Init ==
    /\ startup = StartupIdle
    /\ parse = ParseIdle
    /\ race = RaceIdle
    /\ stars = StarsIdle
    /\ env \in Envs
    /\ cookie = NoToken
    /\ now = 0
    /\ last = Idle
    /\ guard = GuardIdle
    /\ access = AccessIdle
    /\ audit = AuditIdle
    /\ expiry = ExpiryIdle
    /\ refresh = RefreshIdle

\* An OAuth sign-in with Webex completes: the signIn callback decides, and
\* on TRUE the jwt callback builds the session token.
SignIn ==
    \E user \in Users, account \in Accounts, profile \in Profiles :
        LET ok == signIn(user, account, profile, env)
            fetched == CHOOSE f \in Fetches : TRUE
        IN  /\ cookie' = IF ok
                         THEN jwt(FreshToken, user, account, profile, now, fetched)
                         ELSE cookie
            /\ last' = [Idle EXCEPT !.op = "signIn",
                                    !.hadToken = cookie.present,
                                    !.email = SignInEmail(user, profile),
                                    !.orgId = profile.orgId,
                                    !.returned = ok]
            /\ UNCHANGED <<env, now, guard, access, audit, expiry, refresh,
                 startup, parse, race, stars>>

\* One request passes the guard.
Request ==
    \E pathname \in MainPaths, search \in MainSearches, fetched \in MainFetches :
        LET resolved == auth(cookie, now, fetched)
            r == proxy(pathname, search, resolved)
            called == r.authCalls > 0
        IN  /\ cookie' = IF called THEN resolved.token ELSE cookie
            /\ last' = [Idle EXCEPT
                           !.op = "request",
                           !.pathname = pathname,
                           !.search = search,
                           !.response = r.response,
                           !.authCalls = r.authCalls,
                           !.hadToken = cookie.present,
                           !.errorBefore = IF cookie.present THEN cookie.error
                                           ELSE NoError,
                           !.refresh = IF called
                                       THEN RefreshOutcome(cookie, now, fetched)
                                       ELSE "none"]
            /\ UNCHANGED <<env, now, guard, access, audit, expiry, refresh,
                 startup, parse, race, stars>>

SignOut ==
    /\ cookie.present
    /\ cookie' = NoToken
    /\ last' = [Idle EXCEPT !.op = "signOut", !.hadToken = TRUE]
    /\ UNCHANGED <<env, now, guard, access, audit, expiry, refresh,
                 startup, parse, race, stars>>

Tick ==
    /\ \E d \in TickSteps :
          /\ now + d <= MaxTicks * d
          /\ now' = now + d
    /\ UNCHANGED <<env, cookie, last, guard, access, audit, expiry, refresh,
                 startup, parse, race, stars>>

Next == SignIn \/ Request \/ SignOut \/ Tick

Spec == Init /\ [][Next]_vars

(***************************************************************************)
(* The guard on an arbitrary resolved session (auth() mocked, as in the    *)
(* guard's tests)                                                          *)
(***************************************************************************)
GuardSessions ==
    {NoSession}
    \cup {[present |-> TRUE,
           user |-> [id |-> <<"user-1">>, provider |-> "webex", orgId |-> O1,
                     webexId |-> <<"webex-1">>],
           accessToken |-> <<"at0">>, error |-> e] :
             e \in {NoError, "RefreshTokenError", RefreshAccessTokenError}}

GuardInit ==
    /\ startup = StartupIdle
    /\ parse = ParseIdle
    /\ race = RaceIdle
    /\ stars = StarsIdle
    /\ guard \in [phase : {"request"}, pathname : Paths, search : Searches,
                  session : GuardSessions, response : {Next200}, authCalls : {0}]
    /\ env = UnsetEnv
    /\ cookie = NoToken
    /\ now = 0
    /\ last = Idle
    /\ access = AccessIdle
    /\ audit = AuditIdle
    /\ expiry = ExpiryIdle
    /\ refresh = RefreshIdle

GuardProxy ==
    /\ guard.phase = "request"
    /\ LET r == proxy(guard.pathname, guard.search,
                      [session |-> guard.session, token |-> NoToken])
       IN  guard' = [guard EXCEPT !.phase = "responded",
                                  !.response = r.response,
                                  !.authCalls = r.authCalls]
    /\ UNCHANGED <<env, cookie, now, last, access, audit, expiry, refresh,
                 startup, parse, race, stars>>

GuardNext == GuardProxy

SpecGuard == GuardInit /\ [][GuardNext]_vars

(***************************************************************************)
(* validateWebexAccess on arbitrary arguments                              *)
(***************************************************************************)
AccessInit ==
    /\ startup = StartupIdle
    /\ parse = ParseIdle
    /\ race = RaceIdle
    /\ stars = StarsIdle
    /\ access \in [phase : {"call"}, email : Emails, orgId : OrgIdInputs,
                   config : Configs,
                   result : {[allowed |-> FALSE, reason |-> NoReason]}]
    /\ env = UnsetEnv
    /\ cookie = NoToken
    /\ now = 0
    /\ last = Idle
    /\ guard = GuardIdle
    /\ audit = AuditIdle
    /\ expiry = ExpiryIdle
    /\ refresh = RefreshIdle

Validate ==
    /\ access.phase = "call"
    /\ access' = [access EXCEPT
                     !.phase = "returned",
                     !.result = validateWebexAccess(access.email, access.orgId,
                                                    access.config)]
    /\ UNCHANGED <<env, cookie, now, last, guard, audit, expiry, refresh,
                 startup, parse, race, stars>>

AccessNext == Validate

SpecAccess == AccessInit /\ [][AccessNext]_vars

(***************************************************************************)
(* createAuthAuditLog calls on one store                                   *)
(***************************************************************************)
AuditInit ==
    /\ startup = StartupIdle
    /\ parse = ParseIdle
    /\ race = RaceIdle
    /\ stars = StarsIdle
    /\ audit = AuditIdle
    /\ env = UnsetEnv
    /\ cookie = NoToken
    /\ now = 0
    /\ last = Idle
    /\ guard = GuardIdle
    /\ access = AccessIdle
    /\ expiry = ExpiryIdle
    /\ refresh = RefreshIdle

\* One createAuthAuditLog(db, data) call, the store answering its insertOne
\* as behaviour says; console holds the lines this call wrote.
AuditLog ==
    /\ audit.calls < MaxAuditCalls
    /\ \E data \in AuditInputs, behaviour \in InsertBehaviours :
          LET store == [audit.store EXCEPT !.insertOne = behaviour]
              r == createAuthAuditLog(store, data, now)
          IN  audit' = [audit EXCEPT !.calls = @ + 1, !.store = r.store,
                                     !.console = r.console, !.data = data,
                                     !.result = r.result]
    /\ UNCHANGED <<env, cookie, now, last, guard, access, expiry, refresh,
                 startup, parse, race, stars>>

\* One of the three audit queries; found is the array it resolves to.
AuditQueryByUserId ==
    /\ \E userId \in {"u1", "u2"}, limit \in QueryLimits :
          \E found \in getAuditLogsByUserId(audit.store, userId, limit) :
              audit' = [audit EXCEPT !.query = "byUserId", !.found = found]
    /\ UNCHANGED <<env, cookie, now, last, guard, access, expiry, refresh,
                 startup, parse, race, stars>>

AuditQueryByEmail ==
    /\ \E email \in {<<"a", "@", "a", ".", "b">>, <<"b", "@", "a", ".", "b">>},
          limit \in QueryLimits :
          \E found \in getAuditLogsByEmail(audit.store, email, limit) :
              audit' = [audit EXCEPT !.query = "byEmail", !.found = found]
    /\ UNCHANGED <<env, cookie, now, last, guard, access, expiry, refresh,
                 startup, parse, race, stars>>

AuditQueryRecent ==
    /\ \E limit \in QueryLimits :
          \E found \in getRecentAuditLogs(audit.store, limit) :
              audit' = [audit EXCEPT !.query = "recent", !.found = found]
    /\ UNCHANGED <<env, cookie, now, last, guard, access, expiry, refresh,
                 startup, parse, race, stars>>

AuditNext ==
    \/ AuditLog
    \/ AuditQueryByUserId
    \/ AuditQueryByEmail
    \/ AuditQueryRecent
    \/ Tick

SpecAudit == AuditInit /\ [][AuditNext]_vars

(***************************************************************************)
(* Sign-ins in a process whose environment settings are changed while it   *)
(* runs.  parse records what parseAccessControlConfig gives for the        *)
(* settings the process started with.                                      *)
(***************************************************************************)
ReconfigureInit ==
    /\ startup = StartupIdle
    /\ env \in Envs
    /\ parse = [phase |-> "startup", env |-> env,
                result |-> parseAccessControlConfig(env)]
    /\ race = RaceIdle
    /\ stars = StarsIdle
    /\ cookie = NoToken
    /\ now = 0
    /\ last = Idle
    /\ guard = GuardIdle
    /\ access = AccessIdle
    /\ audit = AuditIdle
    /\ expiry = ExpiryIdle
    /\ refresh = RefreshIdle

\* process.env is assigned while the process runs.
SetEnv ==
    /\ \E e \in Envs : e # env /\ env' = e
    /\ UNCHANGED <<cookie, now, last, guard, access, audit, expiry, refresh,
                 startup, parse, race, stars>>

ReconfigureNext == SignIn \/ SetEnv \/ SignOut

SpecReconfigure == ReconfigureInit /\ [][ReconfigureNext]_vars

(***************************************************************************)
(* Requests of one browser in flight together.  Each carries the session   *)
(* cookie as it was when the request was sent; the jwt callback runs for   *)
(* each on its own copy of the token, and its await on the POST to the     *)
(* token endpoint is where the requests interleave.  The provider keeps    *)
(* the refresh tokens it accepts; in mode "single_use" a refresh token is  *)
(* withdrawn when it is exchanged, in mode "reusable" it stays valid.      *)
(***************************************************************************)
RaceRequests == 1..MaxRequests
ProviderModes == {"single_use", "reusable"}
RaceNows == {0, 1000}
RaceExpiresAfter == {100, 299, 300, 900}
RaceExpiresIn == {<<200>>, <<600>>}

\* The n-th pair of credentials the provider issues; 0 is the sign-in's.
IssuedAccessToken(n) == <<"at", n>>
IssuedRefreshToken(n) == <<"rt", n>>

\* The session token of a signed-in user; error is the tag a failed
\* refresh of an earlier request has left.
RaceToken(expiresAt, error) ==
    [FreshToken EXCEPT !.accessToken = IssuedAccessToken(0),
                       !.refreshToken = IssuedRefreshToken(0),
                       !.expiresAt = expiresAt,
                       !.provider = "webex",
                       !.userId = <<"user-1">>,
                       !.error = error]

NoAnswer ==
    [kind |-> "throws", access_token |-> Undefined, refresh_token |-> Undefined,
     expires_in |-> <<>>]

RequestIdle ==
    [pc |-> "idle", token |-> NoToken, posted |-> Undefined, answer |-> NoAnswer,
     returned |-> NoToken]

RaceInit ==
    /\ startup = StartupIdle
    /\ parse = ParseIdle
    /\ stars = StarsIdle
    /\ env = UnsetEnv
    /\ now \in RaceNows
    /\ last = Idle
    /\ guard = GuardIdle
    /\ access = AccessIdle
    /\ audit = AuditIdle
    /\ expiry = ExpiryIdle
    /\ refresh = RefreshIdle
    /\ \E after \in RaceExpiresAfter, error \in {NoError, RefreshAccessTokenError} :
          cookie = RaceToken(now + after, error)
    /\ \E mode \in ProviderModes, expiresIn \in RaceExpiresIn :
          race = [phase |-> "running", mode |-> mode, expiresIn |-> expiresIn,
                  valid |-> {IssuedRefreshToken(0)}, issued |-> 0,
                  req |-> [r \in RaceRequests |-> RequestIdle]]

\* Request r arrives with the browser's cookie and the jwt callback runs
\* up to its await: nothing to do unless the token is expiring soon, else
\* the POST with the token's refresh token is on its way.
RaceReceive(r) ==
    /\ race.req[r].pc = "idle"
    /\ LET token == cookie
           refreshing == isTokenExpiringSoon(<<token.expiresAt>>, now)
       IN  race' = [race EXCEPT !.req[r] =
                       [pc |-> IF refreshing THEN "posted" ELSE "returned",
                        token |-> token,
                        posted |-> IF refreshing THEN token.refreshToken
                                   ELSE Undefined,
                        answer |-> NoAnswer,
                        returned |-> IF refreshing THEN NoToken ELSE token]]
    /\ UNCHANGED <<env, cookie, now, last, guard, access, audit, expiry,
                   refresh, startup, parse, stars>>

\* The token endpoint handles the POST of request r: an accepted refresh
\* token is exchanged for the next pair of credentials, any other is
\* answered with an HTTP error.
RaceProviderAnswers(r) ==
    /\ race.req[r].pc = "posted"
    /\ LET posted == race.req[r].posted
           n == race.issued + 1
       IN  IF posted \in race.valid
           THEN race' = [race EXCEPT
                            !.issued = n,
                            !.valid = (IF race.mode = "single_use"
                                       THEN @ \ {posted} ELSE @)
                                      \cup {IssuedRefreshToken(n)},
                            !.req[r].pc = "answered",
                            !.req[r].answer =
                                [kind |-> "json",
                                 access_token |-> IssuedAccessToken(n),
                                 refresh_token |-> IssuedRefreshToken(n),
                                 expires_in |-> race.expiresIn]]
           ELSE race' = [race EXCEPT
                            !.req[r].pc = "answered",
                            !.req[r].answer =
                                [NoAnswer EXCEPT !.kind = "http_error"]]
    /\ UNCHANGED <<env, cookie, now, last, guard, access, audit, expiry,
                   refresh, startup, parse, stars>>

\* The await of request r resumes: the jwt callback finishes on the
\* request's copy of the token, and the response sets the cookie.
RaceReturn(r) ==
    /\ race.req[r].pc = "answered"
    /\ LET token == jwt(race.req[r].token, Undefined, NoAccount, Undefined,
                        now, race.req[r].answer)
       IN  /\ race' = [race EXCEPT !.req[r].pc = "returned",
                                   !.req[r].returned = token]
           /\ cookie' = token
    /\ UNCHANGED <<env, now, last, guard, access, audit, expiry, refresh,
                   startup, parse, stars>>

RaceNext ==
    \E r \in RaceRequests :
        RaceReceive(r) \/ RaceProviderAnswers(r) \/ RaceReturn(r)

SpecRace == RaceInit /\ [][RaceNext]_vars

(***************************************************************************)
(* toggleStar calls on the prompts collection.  A call is two operations   *)
(* on the store, findOne and then updateOne, each atomic on the document;  *)
(* calls interleave between the two.                                       *)
(***************************************************************************)
StarCalls == 1..MaxStarCalls
StarUsers == {"u1", "u2"}
PromptIds == {"p1", "missing"}

StarCallIdle ==
    [pc |-> "idle", promptId |-> "p1", userId |-> "u1", isStarred |-> FALSE,
     result |-> "none"]

StarsInit ==
    /\ startup = StartupIdle
    /\ parse = ParseIdle
    /\ race = RaceIdle
    /\ env = UnsetEnv
    /\ cookie = NoToken
    /\ now = 0
    /\ last = Idle
    /\ guard = GuardIdle
    /\ access = AccessIdle
    /\ audit = AuditIdle
    /\ expiry = ExpiryIdle
    /\ refresh = RefreshIdle
    /\ stars = [phase |-> "running", prompt |-> createPrompt,
                call |-> [c \in StarCalls |-> StarCallIdle]]

\* toggleStar(promptId, userId) up to its second await: findOne, the
\* throw when there is no such prompt, and the test of starredBy.
StarFind(c) ==
    /\ stars.call[c].pc = "idle"
    /\ \E promptId \in PromptIds, userId \in StarUsers :
          stars' = [stars EXCEPT !.call[c] =
                       IF promptId = "p1"
                       THEN [pc |-> "found", promptId |-> promptId,
                             userId |-> userId,
                             isStarred |-> IsStarredBy(stars.prompt, userId),
                             result |-> "none"]
                       ELSE [pc |-> "done", promptId |-> promptId,
                             userId |-> userId, isStarred |-> FALSE,
                             result |-> "throws Prompt not found"]]
    /\ UNCHANGED <<env, cookie, now, last, guard, access, audit, expiry,
                   refresh, startup, parse, race>>

\* The rest of the call: the updateOne chosen by what findOne showed.
StarUpdate(c) ==
    /\ stars.call[c].pc = "found"
    /\ LET userId == stars.call[c].userId
       IN  stars' = [stars EXCEPT
                        !.prompt = IF stars.call[c].isStarred
                                   THEN Unstar(@, userId) ELSE Star(@, userId),
                        !.call[c].pc = "done",
                        !.call[c].result = IF stars.call[c].isStarred
                                           THEN "false" ELSE "true"]
    /\ UNCHANGED <<env, cookie, now, last, guard, access, audit, expiry,
                   refresh, startup, parse, race>>

StarsNext == \E c \in StarCalls : StarFind(c) \/ StarUpdate(c)

SpecStars == StarsInit /\ [][StarsNext]_vars

(***************************************************************************)
(* isTokenExpiringSoon on arbitrary arguments                              *)
(***************************************************************************)
ExpiryInit ==
    /\ startup = StartupIdle
    /\ parse = ParseIdle
    /\ race = RaceIdle
    /\ stars = StarsIdle
    /\ now \in ExpiryNows
    /\ expiry \in [phase : {"call"}, expiresAt : ExpiresAtInputs(now),
                   result : {FALSE}]
    /\ env = UnsetEnv
    /\ cookie = NoToken
    /\ last = Idle
    /\ guard = GuardIdle
    /\ access = AccessIdle
    /\ audit = AuditIdle
    /\ refresh = RefreshIdle

ExpiryCheck ==
    /\ expiry.phase = "call"
    /\ expiry' = [expiry EXCEPT
                     !.phase = "returned",
                     !.result = isTokenExpiringSoon(expiry.expiresAt, now)]
    /\ UNCHANGED <<env, cookie, now, last, guard, access, audit, refresh,
                 startup, parse, race, stars>>

ExpiryNext == ExpiryCheck

SpecExpiry == ExpiryInit /\ [][ExpiryNext]_vars

(***************************************************************************)
(* refreshWebexAccessToken on arbitrary arguments and endpoint answers     *)
(***************************************************************************)
RefreshInit ==
    /\ startup = StartupIdle
    /\ parse = ParseIdle
    /\ race = RaceIdle
    /\ stars = StarsIdle
    /\ refresh \in [phase : {"call"}, refreshToken : RefreshTokenInputs,
                    clientId : ClientIdInputs, clientSecret : ClientSecretInputs,
                    fetched : RefreshFetches,
                    result : {RefreshFailure("undefined")}]
    /\ env = UnsetEnv
    /\ cookie = NoToken
    /\ now = 0
    /\ last = Idle
    /\ guard = GuardIdle
    /\ access = AccessIdle
    /\ audit = AuditIdle
    /\ expiry = ExpiryIdle

RefreshCall ==
    /\ refresh.phase = "call"
    /\ refresh' = [refresh EXCEPT
                      !.phase = "returned",
                      !.result = refreshWebexAccessToken(
                                     refresh.refreshToken, refresh.clientId,
                                     refresh.clientSecret, refresh.fetched)]
    /\ UNCHANGED <<env, cookie, now, last, guard, access, audit, expiry,
                 startup, parse, race, stars>>

RefreshNext == RefreshCall

SpecRefresh == RefreshInit /\ [][RefreshNext]_vars

(***************************************************************************)
(* validateAuthEnv at the start of the process                             *)
(***************************************************************************)
StartupInit ==
    /\ startup \in [phase : {"call"}, env : StartupEnvs, result : {NoThrow}]
    /\ env = UnsetEnv
    /\ cookie = NoToken
    /\ now = 0
    /\ last = Idle
    /\ guard = GuardIdle
    /\ access = AccessIdle
    /\ audit = AuditIdle
    /\ expiry = ExpiryIdle
    /\ refresh = RefreshIdle
    /\ parse = ParseIdle
    /\ race = RaceIdle
    /\ stars = StarsIdle

StartupValidate ==
    /\ startup.phase = "call"
    /\ startup' = [startup EXCEPT !.phase = "returned",
                                  !.result = validateAuthEnv(startup.env)]
    /\ UNCHANGED <<env, cookie, now, last, guard, access, audit, expiry,
                   refresh, parse, race, stars>>

StartupNext == StartupValidate

SpecStartup == StartupInit /\ [][StartupNext]_vars

(***************************************************************************)
(* parseAccessControlConfig on arbitrary settings                          *)
(***************************************************************************)
ParseInit ==
    /\ parse \in [phase : {"call"}, env : ParseEnvs, result : {ParseIdle.result}]
    /\ env = UnsetEnv
    /\ cookie = NoToken
    /\ now = 0
    /\ last = Idle
    /\ guard = GuardIdle
    /\ access = AccessIdle
    /\ audit = AuditIdle
    /\ expiry = ExpiryIdle
    /\ refresh = RefreshIdle
    /\ startup = StartupIdle
    /\ race = RaceIdle
    /\ stars = StarsIdle

ParseConfig ==
    /\ parse.phase = "call"
    /\ parse' = [parse EXCEPT !.phase = "returned",
                              !.result = parseAccessControlConfig(parse.env)]
    /\ UNCHANGED <<env, cookie, now, last, guard, access, audit, expiry,
                   refresh, startup, race, stars>>

ParseNext == ParseConfig

SpecParse == ParseInit /\ [][ParseNext]_vars

(***************************************************************************)
(* Reading a redirect's Location back, as a browser does                   *)
(***************************************************************************)
FormDecodeTriple(a, b) ==
    CASE a = "2" /\ b = "F" -> "/"
      [] a = "3" /\ b = "F" -> "?"
      [] a = "3" /\ b = "D" -> "="
      [] a = "2" /\ b = "6" -> "&"
      [] a = "2" /\ b = "5" -> "%"
      [] a = "2" /\ b = "B" -> "+"
      [] OTHER -> "invalid"

RECURSIVE FormDecode(_)
FormDecode(s) ==
    IF s = <<>> THEN <<>>
    ELSE IF s[1] = "%" /\ Len(s) >= 3
    THEN <<FormDecodeTriple(s[2], s[3])>> \o FormDecode(SubSeq(s, 4, Len(s)))
    ELSE IF s[1] = "+" THEN <<" ">> \o FormDecode(Tail(s))
    ELSE <<s[1]>> \o FormDecode(Tail(s))

IndexOf(s, c) ==
    IF \E i \in 1..Len(s) : s[i] = c
    THEN CHOOSE i \in 1..Len(s) : s[i] = c /\ \A j \in 1..(i - 1) : s[j] # c
    ELSE 0

LocationPath(location) ==
    IF IndexOf(location, "?") = 0 THEN location
    ELSE SubSeq(location, 1, IndexOf(location, "?") - 1)

LocationPairs(location) ==
    IF IndexOf(location, "?") = 0 THEN <<>>
    ELSE Split(SubSeq(location, IndexOf(location, "?") + 1, Len(location)), "&")

\* The decoded values of the query parameter called name, in order.
LocationParams(location, name) ==
    LET pairs == LocationPairs(location)
        Key(pr) == IF IndexOf(pr, "=") = 0 THEN pr
                   ELSE SubSeq(pr, 1, IndexOf(pr, "=") - 1)
        Val(pr) == IF IndexOf(pr, "=") = 0 THEN <<>>
                   ELSE SubSeq(pr, IndexOf(pr, "=") + 1, Len(pr))
    IN  SelectSeq([i \in 1..Len(pairs) |->
                      [name |-> FormDecode(Key(pairs[i])),
                       value |-> FormDecode(Val(pairs[i]))]],
                  LAMBDA x : x.name = name)

\* The paths the guard's contract calls public.
PublicPath(pathname) ==
    pathname = LOGIN \/ StartsWith(pathname, API_AUTH_PREFIX)

\* resp sends the browser to /login with exactly the parameter callbackUrl,
\* holding target.
IsLoginRedirect(resp, target) ==
    /\ resp.kind = "redirect"
    /\ resp.status = 307
    /\ LocationPath(resp.location) = LOGIN
    /\ Len(LocationPairs(resp.location)) = 1
    /\ LocationParams(resp.location, ERROR_KEY) = <<>>
    /\ LocationParams(resp.location, CALLBACK_URL_KEY)
           = <<[name |-> CALLBACK_URL_KEY, value |-> target]>>
    /\ resp.location = LOGIN \o <<"?">> \o CALLBACK_URL_KEY \o <<"=">>
                           \o FormEncode(target)

\* resp sends the browser to /login with error=SessionExpired and
\* callbackUrl holding target.
IsExpiredRedirect(resp, target) ==
    /\ resp.kind = "redirect"
    /\ resp.status = 307
    /\ LocationPath(resp.location) = LOGIN
    /\ Len(LocationPairs(resp.location)) = 2
    /\ LocationParams(resp.location, ERROR_KEY)
           = <<[name |-> ERROR_KEY, value |-> SESSION_EXPIRED]>>
    /\ LocationParams(resp.location, CALLBACK_URL_KEY)
           = <<[name |-> CALLBACK_URL_KEY, value |-> target]>>

(***************************************************************************)
(* Claims                                                                  *)
(***************************************************************************)

\* C1: once a refresh has failed for a session (the error tag is on its
\* token before the request, and the session this request resolves carries
\* it), a request of that session to a non-public path is answered with
\* the redirect to /login carrying error=SessionExpired and callbackUrl =
\* path + query, never with Allow.  (A request whose own refresh succeeds
\* resolves a session without the tag: that case is C7's.)
C1_DegradedSessionIsRedirected ==
    (/\ last.op = "request"
     /\ ~PublicPath(last.pathname)
     /\ last.hadToken
     /\ last.errorBefore = RefreshAccessTokenError
     /\ cookie.present
     /\ session(cookie).error = RefreshAccessTokenError)
    => IsExpiredRedirect(last.response, last.pathname \o last.search)

\* C2: a request to a non-public path with no session is redirected to
\* /login with callbackUrl = pathname + query string, percent-encoded, and
\* no error parameter.
C2_NoSessionRedirectsWithCallback ==
    (/\ guard.phase = "responded"
     /\ ~PublicPath(guard.pathname)
     /\ ~guard.session.present)
    => /\ IsLoginRedirect(guard.response, guard.pathname \o guard.search)
       /\ guard.authCalls = 1

C2_Witness ==
    /\ guard.phase = "responded"
    /\ guard.pathname = <<"/", "p", "r", "o", "m", "p", "t", "s", "/", "1">>
    /\ guard.search = <<"?", "v", "=", "d", "&", "t", "=", "h">>
    /\ ~guard.session.present
    /\ guard.response.location =
           <<"/", "l", "o", "g", "i", "n", "?", "c", "a", "l", "l", "b", "a", "c", "k", "U", "r", "l", "=", "%", "2", "F", "p", "r", "o", "m", "p", "t", "s", "%", "2", "F", "1", "%", "3", "F", "v", "%", "3", "D", "d", "%", "2", "6", "t", "%", "3", "D", "h">>

\* C3: a request to a public path (/login, or under /api/auth/) is allowed
\* without any session lookup, whatever the session is.
C3_PublicPathSkipsSessionLookup ==
    (guard.phase = "responded" /\ PublicPath(guard.pathname))
    => (guard.response = Next200 /\ guard.authCalls = 0)

C3_Witness ==
    /\ guard.phase = "responded"
    /\ guard.pathname = API_AUTH_PREFIX \o <<"a">>
    /\ guard.session.present
    /\ guard.session.error = "RefreshTokenError"
    /\ guard.response = Next200
    /\ guard.authCalls = 0

\* C4: a request to the root path "/" with no session proceeds (status 200,
\* no redirect) and auth() is not called.
C4_RootIsPublic ==
    (/\ guard.phase = "responded"
     /\ guard.pathname = <<"/">>
     /\ ~guard.session.present)
    => (guard.response.status = 200 /\ guard.authCalls = 0)

\* C5: on a non-public path, a resolved session whose error is the literal
\* RefreshTokenError is redirected to /login with error=SessionExpired and
\* callbackUrl = path + query.
C5_RefreshTokenErrorRedirects ==
    (/\ guard.phase = "responded"
     /\ ~PublicPath(guard.pathname)
     /\ guard.session.present
     /\ guard.session.error = "RefreshTokenError")
    => IsExpiredRedirect(guard.response, guard.pathname \o guard.search)

C5_Witness ==
    /\ guard.phase = "responded"
    /\ guard.pathname = <<"/", "l", "i", "b", "r", "a", "r", "y">>
    /\ guard.search = <<"?", "v", "=", "d", "&", "t", "=", "h">>
    /\ guard.session.present
    /\ guard.session.error = "RefreshTokenError"
    /\ guard.response.location =
           <<"/", "l", "o", "g", "i", "n", "?", "e", "r", "r", "o", "r", "=", "S", "e", "s", "s", "i", "o", "n", "E", "x", "p", "i", "r", "e", "d", "&", "c", "a", "l", "l", "b", "a", "c", "k", "U", "r", "l", "=", "%", "2", "F", "l", "i", "b", "r", "a", "r", "y", "%", "3", "F", "v", "%", "3", "D", "d", "%", "2", "6", "t", "%", "3", "D", "h">>

C7_ErrorIsTerminal ==
    (/\ last.op = "request"
     /\ last.authCalls > 0
     /\ last.hadToken
     /\ last.errorBefore = RefreshAccessTokenError)
    => (cookie.present /\ cookie.error = RefreshAccessTokenError)

\* C7 as amended: an error on the session token is taken off only by a
\* refresh that succeeds or by a sign-in that creates a new token; every
\* other run of the jwt callback leaves it set.
C7_ErrorClearedOnlyBySuccessOrSignIn ==
    [][(/\ cookie.present
        /\ cookie.error = RefreshAccessTokenError
        /\ cookie'.present
        /\ cookie'.error # RefreshAccessTokenError)
       => \/ (last'.op = "request" /\ last'.refresh = "ok")
          \/ (last'.op = "signIn" /\ last'.returned)]_vars

C7_Witness ==
    /\ last.op = "request"
    /\ last.authCalls > 0
    /\ last.errorBefore = RefreshAccessTokenError
    /\ last.refresh = "failed"
    /\ cookie.present
    /\ cookie.error = RefreshAccessTokenError

\* C8: a Webex sign-in is let through exactly when validateWebexAccess
\* allows (email, orgId) under the configuration the settings give; a
\* denied sign-in creates no session token.
C8_SignInFollowsEvaluator ==
    [][last'.op = "signIn"
       => LET allowed ==
                  validateWebexAccess(last'.email, last'.orgId,
                                      parseAccessControlConfig(env')).allowed
          IN  /\ last'.returned = allowed
              /\ ~allowed => cookie' = cookie
              /\ allowed => cookie'.present]_vars

C8_Witness ==
    /\ last.op = "signIn"
    /\ ~last.returned
    /\ ~cookie.present
    /\ last.email = <<"a", "@", "a", ".", "b">>
    /\ validateWebexAccess(last.email, last.orgId,
                           parseAccessControlConfig(env)).reason
           = "UnauthorizedOrganization"

\* C9 as stated: with both whitelists empty, in either mode, every email
\* that is non-empty after trimming is allowed, whatever the orgId.
C9_EmptyListsAllowAnyEmail ==
    (/\ access.phase = "returned"
     /\ access.config.allowedOrgIds = <<>>
     /\ access.config.allowedDomains = <<>>
     /\ ~Falsy(access.email)
     /\ Trim(access.email) # <<>>)
    => access.result = [allowed |-> TRUE, reason |-> NoReason]

\* C9 as amended: with both whitelists empty, in either mode, every email
\* that is non-empty after trimming and does not end with "@" (the text
\* after its last "@" is not empty) is allowed, whatever the orgId.
C9_EmptyListsAllowEmailWithDomain ==
    (/\ access.phase = "returned"
     /\ access.config.allowedOrgIds = <<>>
     /\ access.config.allowedDomains = <<>>
     /\ ~Falsy(access.email)
     /\ Trim(access.email) # <<>>
     /\ Trim(access.email)[Len(Trim(access.email))] # "@")
    => access.result = [allowed |-> TRUE, reason |-> NoReason]

C9_Witness ==
    /\ access.phase = "returned"
    /\ access.config.allowedOrgIds = <<>>
    /\ access.config.allowedDomains = <<>>
    /\ access.config.mode = "OR"
    /\ access.orgId = Undefined
    /\ access.email = <<"@", "a", " ">>
    /\ access.result.allowed

\* C10: with exactly one of the two whitelists non-empty, the decision is
\* the same in OR mode as in AND mode.
C10_ModeIrrelevantWithOneList ==
    (/\ access.phase = "returned"
     /\ (access.config.allowedOrgIds = <<>>) # (access.config.allowedDomains = <<>>))
    => \A m \in Modes :
           validateWebexAccess(access.email, access.orgId,
                               [access.config EXCEPT !.mode = m]).allowed
               = access.result.allowed

\* The email has text after its last "@" once trimmed (the evaluator's
\* steps 1 and 2 let it through).
HasDomainPart(email) ==
    /\ ~Falsy(email)
    /\ Trim(email) # <<>>
    /\ Trim(email)[Len(Trim(email))] # "@"

\* orgId is present and an entry of the organization whitelist.
OrgListed(orgId, config) ==
    /\ ~Falsy(orgId)
    /\ \E i \in 1..Len(config.allowedOrgIds) : config.allowedOrgIds[i] = orgId

\* The lowercased text after the last "@" of the trimmed email is an entry
\* of the domain whitelist.
DomainListed(email, config) ==
    LET t == ToLowerCase(Trim(email))
        ats == {i \in 1..Len(t) : t[i] = "@"}
        start == IF ats = {} THEN 1
                 ELSE (CHOOSE i \in ats : \A j \in ats : j <= i) + 1
    IN  \E k \in 1..Len(config.allowedDomains) :
            config.allowedDomains[k] = SubSeq(t, start, Len(t))

\* C11 as stated: in AND mode with a non-empty organization whitelist, an
\* orgId that is absent or not listed gives allowed=false with reason
\* UnauthorizedOrganization, also when the domain fails too; and
\* UnauthorizedDomain is returned only when the organization check passes
\* (or the organization list is empty) and the domain check fails.
C11_OrgCheckedFirst ==
    (access.phase = "returned" /\ access.config.mode = "AND")
    => /\ (access.config.allowedOrgIds # <<>>
           /\ ~OrgListed(access.orgId, access.config))
          => access.result = [allowed |-> FALSE,
                              reason |-> "UnauthorizedOrganization"]
       /\ access.result.reason = "UnauthorizedDomain"
          => /\ access.config.allowedOrgIds = <<>>
                \/ OrgListed(access.orgId, access.config)
             /\ access.config.allowedDomains # <<>>
             /\ ~DomainListed(access.email, access.config)

\* C11 as amended: the same, for emails that have text after their last
\* "@" once trimmed.  (An absent or blank email is denied with NoEmail and
\* an email ending in "@" with UnauthorizedDomain before either whitelist
\* is looked at.)
C11_OrgCheckedFirstForEmailWithDomain ==
    (/\ access.phase = "returned"
     /\ access.config.mode = "AND"
     /\ HasDomainPart(access.email))
    => /\ (access.config.allowedOrgIds # <<>>
           /\ ~OrgListed(access.orgId, access.config))
          => access.result = [allowed |-> FALSE,
                              reason |-> "UnauthorizedOrganization"]
       /\ access.result.reason = "UnauthorizedDomain"
          => /\ access.config.allowedOrgIds = <<>>
                \/ OrgListed(access.orgId, access.config)
             /\ access.config.allowedDomains # <<>>
             /\ ~DomainListed(access.email, access.config)

\* Both layers fail and the organization is the one named.
C11_Witness ==
    /\ access.phase = "returned"
    /\ access.config = [allowedOrgIds |-> <<O1>>, allowedDomains |-> <<DomA>>,
                        mode |-> "AND"]
    /\ access.orgId = O2
    /\ access.email = <<"a", "@", "b">>
    /\ access.result = [allowed |-> FALSE, reason |-> "UnauthorizedOrganization"]

\* C12 as stated: in OR mode with both whitelists non-empty, the call
\* allows iff orgId is listed or the email's domain is listed, and denies
\* with reason AccessDenied iff both memberships fail.
C12_OrModeEitherLayer ==
    (/\ access.phase = "returned"
     /\ access.config.mode = "OR"
     /\ access.config.allowedOrgIds # <<>>
     /\ access.config.allowedDomains # <<>>)
    => LET either == \/ OrgListed(access.orgId, access.config)
                     \/ DomainListed(access.email, access.config)
       IN  /\ access.result.allowed <=> either
           /\ access.result = [allowed |-> FALSE, reason |-> "AccessDenied"]
                  <=> ~either

\* C12 as amended: the same, for emails that have text after their last
\* "@" once trimmed.
C12_OrModeEitherLayerForEmailWithDomain ==
    (/\ access.phase = "returned"
     /\ access.config.mode = "OR"
     /\ access.config.allowedOrgIds # <<>>
     /\ access.config.allowedDomains # <<>>
     /\ HasDomainPart(access.email))
    => LET either == \/ OrgListed(access.orgId, access.config)
                     \/ DomainListed(access.email, access.config)
       IN  /\ access.result.allowed <=> either
           /\ access.result = [allowed |-> FALSE, reason |-> "AccessDenied"]
                  <=> ~either

\* Neither the organization nor the domain is listed.
C12_Witness ==
    /\ access.phase = "returned"
    /\ access.config = [allowedOrgIds |-> <<O1>>, allowedDomains |-> <<DomA>>,
                        mode |-> "OR"]
    /\ access.orgId = O2
    /\ access.email = <<"a", "@", "b">>
    /\ access.result = [allowed |-> FALSE, reason |-> "AccessDenied"]

\* C13: the domain check compares the lowercased text after the last "@"
\* of the trimmed email for exact equality with an entry of
\* allowedDomains.  Where the decision rests on the domain check alone (AND
\* mode with the organization check passing or not configured; OR mode
\* with both whitelists and the organization not listed), a non-blank
\* email is allowed exactly when that text is an entry, so an email
\* differing from an allowed one only in letter case is accepted, and in
\* AND mode every other one, an email on a subdomain of an allowed domain
\* included, is rejected with UnauthorizedDomain.
C13_DomainMatchIsExact ==
    (/\ access.phase = "returned"
     /\ access.config.allowedDomains # <<>>
     /\ ~Falsy(access.email)
     /\ Trim(access.email) # <<>>)
    => /\ (/\ access.config.mode = "AND"
           /\ \/ access.config.allowedOrgIds = <<>>
              \/ OrgListed(access.orgId, access.config))
          => /\ access.result.allowed
                    <=> DomainListed(access.email, access.config)
             /\ ~access.result.allowed
                    => access.result.reason = "UnauthorizedDomain"
       /\ (/\ access.config.mode = "OR"
           /\ access.config.allowedOrgIds # <<>>
           /\ ~OrgListed(access.orgId, access.config))
          => access.result.allowed
                 <=> DomainListed(access.email, access.config)
       /\ (/\ access.config.mode = "AND"
           /\ access.config.allowedOrgIds = <<>>
           /\ access.config.allowedDomains = <<DomA>>)
          => /\ access.email = <<"A", "@", "A", ".", "B">>
                    => access.result.allowed
             /\ access.email = <<"a", "@", "b", ".", "a", ".", "b">>
                    => access.result = [allowed |-> FALSE,
                                        reason |-> "UnauthorizedDomain"]

\* An email on a subdomain of the one allowed domain is rejected.
C13_Witness ==
    /\ access.phase = "returned"
    /\ access.config = [allowedOrgIds |-> <<>>, allowedDomains |-> <<DomA>>,
                        mode |-> "AND"]
    /\ access.orgId = Undefined
    /\ access.email = <<"a", "@", "b", ".", "a", ".", "b">>
    /\ access.result = [allowed |-> FALSE, reason |-> "UnauthorizedDomain"]

\* C14: every authentication-relevant failure produces a durable audit
\* record: each sign-in the signIn callback denies appends an
\* access_denied entry to the audit log store, and each request whose
\* token refresh fails appends a token_refresh_failed entry.
C14_FailuresAreAudited ==
    [][LET before == audit.store.documents
           after == audit'.store.documents
       IN  /\ (SignIn /\ ~last'.returned)
                  => /\ Len(after) = Len(before) + 1
                     /\ after[Len(after)].action = "access_denied"
           /\ (Request /\ last'.refresh = "failed")
                  => /\ Len(after) = Len(before) + 1
                     /\ after[Len(after)].action = "token_refresh_failed"]_vars

\* C15: isTokenExpiringSoon(expiresAt) is true iff expiresAt is absent,
\* negative, or strictly less than now (whole seconds) + 300: true at
\* now + 299 and for tokens already expired, false at exactly now + 300
\* and beyond.
C15_ExpiringSoonBoundary ==
    expiry.phase = "returned"
    => /\ expiry.result
              <=> \/ expiry.expiresAt = <<>>
                  \/ expiry.expiresAt[1] < 0
                  \/ expiry.expiresAt[1] < now + 300
       /\ expiry.expiresAt = <<now + 299>> => expiry.result
       /\ (expiry.expiresAt # <<>> /\ expiry.expiresAt[1] <= now)
              => expiry.result
       /\ (expiry.expiresAt # <<>> /\ expiry.expiresAt[1] >= now + 300)
              => ~expiry.result

\* A token expiring exactly 300 seconds from now is not expiring soon.
C15_Witness ==
    /\ expiry.phase = "returned"
    /\ now = 1735732800
    /\ expiry.expiresAt = <<now + 300>>
    /\ ~expiry.result

\* C16: on every successful refresh the result's refreshToken is the
\* provider's refresh_token when the response supplies one, and otherwise
\* the caller-supplied refresh token; it is never empty or undefined.
C16_RefreshTokenKeptOrRotated ==
    (refresh.phase = "returned" /\ refresh.result.success)
    => /\ refresh.result.refreshToken \notin {Undefined, <<>>}
       /\ refresh.fetched.refresh_token \notin {Undefined, <<>>}
              => refresh.result.refreshToken = refresh.fetched.refresh_token
       /\ refresh.fetched.refresh_token \in {Undefined, <<>>}
              => refresh.result.refreshToken = refresh.refreshToken

\* The provider omits refresh_token and the caller's one is kept.
C16_Witness ==
    /\ refresh.phase = "returned"
    /\ refresh.result.success
    /\ refresh.fetched.refresh_token = Undefined
    /\ refresh.refreshToken = <<"rt0">>
    /\ refresh.result.refreshToken = <<"rt0">>

\* C17: refreshWebexAccessToken always returns a result.  Every failure
\* path (an empty or absent parameter, a network exception or timeout, a
\* non-2xx answer, a body that is not JSON, a body without access_token or
\* expires_in) gives success=false with error RefreshAccessTokenError, a
\* message, and no accessToken, refreshToken or expiresIn; success=true is
\* given only for a 2xx answer that parses and has both access_token and
\* expires_in, and then carries them without an error.
C17_FailuresAreTaggedResults ==
    refresh.phase = "returned"
    => LET r == refresh.result
           f == refresh.fetched
           parametersGiven ==
               /\ refresh.refreshToken \notin {Undefined, <<>>}
               /\ refresh.clientId \notin {Undefined, <<>>}
               /\ refresh.clientSecret \notin {Undefined, <<>>}
           complete ==
               /\ f.kind = "json"
               /\ f.access_token \notin {Undefined, <<>>}
               /\ f.expires_in \notin {<<>>, <<0>>}
       IN  /\ r.success <=> (parametersGiven /\ complete)
           /\ ~r.success
                  => /\ r.error = "RefreshAccessTokenError"
                     /\ r.message # "undefined"
                     /\ r.accessToken = Undefined
                     /\ r.refreshToken = Undefined
                     /\ r.expiresIn = <<>>
           /\ r.success
                  => /\ r.error = "undefined"
                     /\ r.accessToken = f.access_token
                     /\ r.expiresIn = f.expires_in

\* The token endpoint cannot be reached and the call returns the failure.
C17_Witness ==
    /\ refresh.phase = "returned"
    /\ refresh.refreshToken = <<"rt0">>
    /\ refresh.clientId = AUTH_WEBEX_ID
    /\ refresh.clientSecret = AUTH_WEBEX_SECRET
    /\ refresh.fetched.kind = "throws"
    /\ refresh.result = [success |-> FALSE, accessToken |-> Undefined,
                         refreshToken |-> Undefined, expiresIn |-> <<>>,
                         error |-> "RefreshAccessTokenError",
                         message |-> "Token refresh failed"]

\* C18: a request whose refresh fails, or on which none is made, leaves
\* the session token's accessToken, refreshToken and expiresAt as they
\* were: after a failed refresh only error differs from the token before.
\* The three fields are written only by a refresh that fully succeeds, and
\* then all three together, from that refresh's result.
C18_FailedRefreshKeepsCredentials ==
    [][(Request /\ cookie.present)
       => /\ cookie'.present
          /\ last'.refresh = "failed"
                 => cookie' = [cookie EXCEPT !.error = "RefreshAccessTokenError"]
          /\ last'.refresh = "none" => cookie' = cookie
          /\ (\/ cookie'.accessToken # cookie.accessToken
              \/ cookie'.refreshToken # cookie.refreshToken
              \/ cookie'.expiresAt # cookie.expiresAt)
                 => last'.refresh = "ok"
          /\ last'.refresh = "ok"
                 => \E fetched \in MainFetches :
                       LET r == refreshWebexAccessToken(
                                    cookie.refreshToken, AUTH_WEBEX_ID,
                                    AUTH_WEBEX_SECRET, fetched)
                       IN  /\ r.success
                           /\ cookie' = [cookie EXCEPT
                                            !.accessToken = r.accessToken,
                                            !.refreshToken = r.refreshToken,
                                            !.expiresAt = now + r.expiresIn[1],
                                            !.error = "undefined"]]_vars

\* A refresh has just failed and the token still holds the credentials of
\* the sign-in.
C18_Witness ==
    /\ last.op = "request"
    /\ last.refresh = "failed"
    /\ last.errorBefore = "undefined"
    /\ cookie.present
    /\ cookie.accessToken = <<"at0">>
    /\ cookie.refreshToken = <<"rt0">>
    /\ cookie.expiresAt = 200
    /\ cookie.error = "RefreshAccessTokenError"

\* C19: createAuthAuditLog called with an entry that has no action returns
\* success=false with the error naming the field, and attempts no store
\* write: insertOne is not called and the collection is as it was.
C19_MissingActionWritesNothing ==
    [][(AuditLog /\ audit'.data.action \in {"undefined", ""})
       => /\ audit'.result.success = FALSE
          /\ audit'.result.error = "Missing required field: action"
          /\ audit'.result.insertedId = <<>>
          /\ audit'.store.insertCalls = audit.store.insertCalls
          /\ audit'.store.documents = audit.store.documents]_vars

\* An entry without action is refused after an earlier entry was stored.
C19_Witness ==
    /\ audit.calls = 2
    /\ audit.data.action = "undefined"
    /\ audit.result = [success |-> FALSE,
                       error |-> "Missing required field: action",
                       insertedId |-> <<>>]
    /\ audit.store.insertCalls = 1
    /\ Len(audit.store.documents) = 1

\* C20: createAuthAuditLog always returns a result.  When the store's
\* insertOne throws or rejects, the call returns success=false with error
\* set to the message of the Error thrown ('Unknown error' when the value
\* thrown is not an Error), and the collection is as it was.
C20_StoreFailureIsReturned ==
    [][(/\ AuditLog
        /\ audit'.data.action \notin {"undefined", ""}
        /\ audit'.store.insertOne.kind \in {"throws", "rejects"})
       => /\ audit'.result.success = FALSE
          /\ audit'.result.insertedId = <<>>
          /\ audit'.store.insertOne.thrown.isError
                 => audit'.result.error = audit'.store.insertOne.thrown.message
          /\ ~audit'.store.insertOne.thrown.isError
                 => audit'.result.error = "Unknown error"
          /\ audit'.store.insertCalls = audit.store.insertCalls + 1
          /\ audit'.store.documents = audit.store.documents]_vars

\* The store rejects the insert of a valid entry and the call returns the
\* store's message.
C20_Witness ==
    /\ audit.calls > 0
    /\ audit.data.action = "access_denied"
    /\ audit.store.insertOne.kind = "rejects"
    /\ audit.store.insertOne.thrown.isError
    /\ audit.result = [success |-> FALSE,
                       error |-> "Database connection failed",
                       insertedId |-> <<>>]

\* C21: the console line of an entry is written for every attempted write
\* of a valid entry, whatever the store does: also when insertOne fails,
\* the console holds the line formatAuditLogMessage gives for the entry.
C21_ConsoleLineWhateverTheStoreDoes ==
    (audit.calls > 0 /\ audit.data.action \notin {"undefined", ""})
    => \E i \in 1..Len(audit.console) :
           /\ audit.console[i].stream = "log"
           /\ audit.console[i].line.label = ActionLabel(audit.data.action)
           /\ audit.console[i].line.ip = audit.data.ipAddress

\* The first characters of s are those of p.
BeginsWith(s, p) ==
    /\ Len(s) >= Len(p)
    /\ \A i \in 1..Len(p) : s[i] = p[i]

\* A required variable that is absent or empty.
IsMissing(e, v) == e[v] \in {Undefined, <<>>}

\* C22: validateAuthEnv throws iff a required variable (AUTH_SECRET,
\* NEXTAUTH_URL, AUTH_WEBEX_ID, AUTH_WEBEX_SECRET, MONGODB_URI) is absent
\* or empty, or NEXTAUTH_URL does not parse as a URL, or MONGODB_URI does
\* not start with mongodb:// or mongodb+srv://; the missing-variable error
\* names every missing variable; an AUTH_SECRET shorter than 32 characters
\* and the absence of both whitelists give a warning and never a throw.
C22_ThrowsOnlyOnMissingOrMalformed ==
    startup.phase = "returned"
    => LET e == startup.env
           r == startup.result
           required == {"AUTH_SECRET", "NEXTAUTH_URL", "AUTH_WEBEX_ID",
                        "AUTH_WEBEX_SECRET", "MONGODB_URI"}
           missing == {v \in required : IsMissing(e, v)}
           malformed ==
               \/ ~ParsesAsUrl(e.NEXTAUTH_URL)
               \/ /\ ~BeginsWith(e.MONGODB_URI, <<"m", "o", "n", "g", "o", "d", "b", ":", "/", "/">>)
                  /\ ~BeginsWith(e.MONGODB_URI, <<"m", "o", "n", "g", "o", "d", "b", "+", "s", "r", "v", ":", "/", "/">>)
       IN  /\ r.threw <=> (missing # {} \/ malformed)
           /\ missing # {}
                  => /\ r.error = "Missing required environment variables for authentication"
                     /\ {r.missingVars[i] : i \in 1..Len(r.missingVars)} = missing
           /\ (missing = {} /\ ~malformed)
                  => /\ Len(e.AUTH_SECRET) < 32
                         => \E i \in 1..Len(r.warnings) :
                                r.warnings[i] = "AUTH_SECRET should be at least 32 characters long"
                     /\ (e.ALLOWED_WEBEX_ORG_IDS \in {Undefined, <<>>}
                         /\ e.ALLOWED_EMAIL_DOMAINS \in {Undefined, <<>>})
                         => \E i \in 1..Len(r.warnings) :
                                r.warnings[i] = "No access control configured"

\* A short secret and no whitelist: two warnings and no throw.
C22_Witness ==
    /\ startup.phase = "returned"
    /\ Len(startup.env.AUTH_SECRET) = 5
    /\ startup.env.ALLOWED_WEBEX_ORG_IDS = Undefined
    /\ startup.env.ALLOWED_EMAIL_DOMAINS = <<>>
    /\ startup.env.ACCESS_CONTROL_MODE = Undefined
    /\ ~startup.result.threw
    /\ Len(startup.result.warnings) = 2

\* C23: parseAccessControlConfig yields mode OR only when the
\* ACCESS_CONTROL_MODE setting is exactly the string "OR"; every other
\* value (unset, empty, "or", " OR ", "XOR") yields AND.
C23_OrOnlyForExactOR ==
    parse.phase = "returned"
    => (parse.result.mode = "OR"
            <=> parse.env.ACCESS_CONTROL_MODE = <<"O", "R">>)

\* The pieces of raw between its commas, in order: piece k lies between
\* the k-th and the (k+1)-th of the positions 0, the commas, Len(raw) + 1.
PiecesBetweenCommas(raw) ==
    LET cuts == {0, Len(raw) + 1} \cup {i \in 1..Len(raw) : raw[i] = ","}
        Cut(k) == CHOOSE c \in cuts : Cardinality({d \in cuts : d < c}) = k - 1
    IN  [k \in 1..(Cardinality(cuts) - 1) |->
            [i \in 1..(Cut(k + 1) - Cut(k) - 1) |-> raw[Cut(k) + i]]]

\* piece without the spaces at its two ends
WithoutOuterSpaces(piece) ==
    LET inner == {i \in 1..Len(piece) : piece[i] # " "}
    IN  IF inner = {} THEN <<>>
        ELSE LET first == CHOOSE i \in inner : \A j \in inner : i <= j
                 final == CHOOSE i \in inner : \A j \in inner : j <= i
             IN  [i \in 1..(final - first + 1) |-> piece[first + i - 1]]

\* The list a whitelist setting stands for.
ListOfSetting(setting, lowercased) ==
    LET raw == IF setting \in {Undefined, <<>>} THEN <<>> ELSE setting
        pieces == PiecesBetweenCommas(raw)
        Lowered(t) == IF lowercased THEN ToLowerCase(t) ELSE t
        kept == SelectSeq([k \in 1..Len(pieces) |-> WithoutOuterSpaces(pieces[k])],
                          LAMBDA t : t # <<>>)
    IN  [k \in 1..Len(kept) |-> Lowered(kept[k])]

\* C24: parseAccessControlConfig splits each whitelist setting on commas,
\* trims every segment, discards the segments that are empty after
\* trimming, keeps the others in their order, and lowercases the domain
\* segments (organization ids keep their case); an unset or empty setting
\* gives an empty list.
C24_ListsAreSplitTrimmedFiltered ==
    parse.phase = "returned"
    => /\ parse.result.allowedOrgIds
              = ListOfSetting(parse.env.ALLOWED_WEBEX_ORG_IDS, FALSE)
       /\ parse.result.allowedDomains
              = ListOfSetting(parse.env.ALLOWED_EMAIL_DOMAINS, TRUE)
       /\ parse.env.ALLOWED_WEBEX_ORG_IDS \in {Undefined, <<>>}
              => parse.result.allowedOrgIds = <<>>
       /\ parse.env.ALLOWED_EMAIL_DOMAINS \in {Undefined, <<>>}
              => parse.result.allowedDomains = <<>>

\* Empty and blank segments are dropped, case is kept for the
\* organization ids and lowered for the domains.
C24_Witness ==
    /\ parse.phase = "returned"
    /\ parse.env.ALLOWED_WEBEX_ORG_IDS = <<"A", ",", " ", ",">>
    /\ parse.result.allowedOrgIds = << <<"A">> >>
    /\ parse.result.allowedDomains = << <<"a", ".", "b">>, <<"b">>, <<"a">> >>

\* C25: the audit entries are append-only.  Under any sequence of
\* createAuthAuditLog calls and audit queries the stored log only grows,
\* every entry already stored keeps its content, and an entry is stored
\* with the timestamp supplied, or with the time of writing when none was
\* supplied.
C25_AuditLogIsAppendOnly ==
    [][LET before == audit.store.documents
           after == audit'.store.documents
       IN  /\ Len(after) >= Len(before)
           /\ Len(after) <= Len(before) + 1
           /\ \A i \in 1..Len(before) : after[i] = before[i]
           /\ ~AuditLog => after = before
           /\ Len(after) = Len(before) + 1
                  => LET entry == after[Len(after)]
                         data == audit'.data
                     IN  /\ \A f \in DOMAIN data \ {"timestamp"} :
                                entry[f] = data[f]
                         /\ data.timestamp # <<>>
                                => entry.timestamp = data.timestamp
                         /\ data.timestamp = <<>>
                                => entry.timestamp = <<now>>]_vars

\* Two entries are stored, the first with a supplied timestamp that is
\* not the time of writing, and a query has returned both.
C25_Witness ==
    /\ Len(audit.store.documents) = 2
    /\ audit.store.documents[1].timestamp = <<0>>
    /\ audit.store.documents[1].email = Undefined
    /\ audit.store.documents[2].timestamp = <<now>>
    /\ now > 0
    /\ audit.query = "recent"
    /\ Len(audit.found) = 2
    /\ audit.found[1] = audit.store.documents[2]

\* C26: the access-control configuration is one snapshot per process:
\* every sign-in is decided with the allowedOrgIds, allowedDomains and
\* mode of the settings the process started with, even if the settings
\* have changed since.
C26_SignInUsesStartupConfig ==
    [][SignIn => last'.returned
                     = validateWebexAccess(last'.email, last'.orgId,
                                           parse.result).allowed]_vars

\* C26 as the code has it: every sign-in is decided with the
\* configuration parsed from the settings as they are at that sign-in; a
\* change of the settings takes effect at the next sign-in.
C26_SignInUsesCurrentSettings ==
    [][SignIn => last'.returned
                     = validateWebexAccess(last'.email, last'.orgId,
                                           parseAccessControlConfig(env)).allowed]_vars

\* The settings were changed after the start, and a sign-in that the
\* startup configuration denies has been allowed.
C26_Witness ==
    /\ last.op = "signIn"
    /\ env # parse.env
    /\ last.returned
    /\ ~validateWebexAccess(last.email, last.orgId, parse.result).allowed

\* Request r has returned after a successful refresh.
RaceRefreshed(r) ==
    /\ race.req[r].pc = "returned"
    /\ race.req[r].posted # Undefined
    /\ race.req[r].returned.error = NoError
    /\ race.req[r].returned.accessToken = race.req[r].answer.access_token

\* Request r has returned with the refresh error on its token.
RaceFailed(r) ==
    /\ race.req[r].pc = "returned"
    /\ race.req[r].posted # Undefined
    /\ race.req[r].returned.error = RefreshAccessTokenError

\* C27: refresh is not mutually excluded per session.  Every request that
\* arrives with an expiring-soon token sends a refresh with that token's
\* refresh token, whatever the other requests of the session are doing,
\* so two concurrent requests with the same token send the same refresh
\* token; and when the provider's refresh tokens are single-use, of two
\* returned requests that sent the same refresh token one has ended with
\* RefreshAccessTokenError, and not both have succeeded.
C27_RefreshIsNotMutuallyExcluded ==
    race.phase = "running"
    => /\ \A r \in RaceRequests :
              (/\ race.req[r].pc # "idle"
               /\ isTokenExpiringSoon(<<race.req[r].token.expiresAt>>, now))
              => race.req[r].posted = race.req[r].token.refreshToken
       /\ \A r, s \in RaceRequests :
              (/\ r # s
               /\ race.mode = "single_use"
               /\ race.req[r].pc = "returned"
               /\ race.req[s].pc = "returned"
               /\ race.req[r].posted # Undefined
               /\ race.req[r].posted = race.req[s].posted)
              => /\ RaceFailed(r) \/ RaceFailed(s)
                 /\ ~(RaceRefreshed(r) /\ RaceRefreshed(s))

\* Both requests sent the same refresh token to a single-use provider;
\* the first refreshed, the second ended with RefreshAccessTokenError,
\* and its response left the error in the browser's cookie.
C27_Witness ==
    /\ race.phase = "running"
    /\ race.mode = "single_use"
    /\ race.req[1].posted = IssuedRefreshToken(0)
    /\ race.req[2].posted = IssuedRefreshToken(0)
    /\ RaceRefreshed(1)
    /\ RaceFailed(2)
    /\ cookie.error = RefreshAccessTokenError

\* C28: when the jwt callback finds the token expiring soon and the
\* refresh succeeds, the token it returns has the new access token, the
\* refresh token of the refresh result, expiresAt = now + expiresIn and no
\* error, the other fields as before; when the token is not expiring soon
\* (and it is not the initial sign-in) no refresh is attempted and the
\* token is returned unchanged.
C28_JwtRefreshOutcome ==
    race.phase = "running"
    => \A r \in RaceRequests :
          race.req[r].pc = "returned"
          => LET token == race.req[r].token
                 result == refreshWebexAccessToken(
                               token.refreshToken, AUTH_WEBEX_ID,
                               AUTH_WEBEX_SECRET, race.req[r].answer)
             IN  IF isTokenExpiringSoon(<<token.expiresAt>>, now)
                 THEN result.success
                      => /\ result.accessToken = race.req[r].answer.access_token
                         /\ race.req[r].returned =
                                [token EXCEPT
                                    !.accessToken = result.accessToken,
                                    !.refreshToken = result.refreshToken,
                                    !.expiresAt = now + result.expiresIn[1],
                                    !.error = NoError]
                 ELSE /\ race.req[r].posted = Undefined
                      /\ race.req[r].answer = NoAnswer
                      /\ race.req[r].returned = token

\* A request that arrived with an expiring-soon token carrying the error
\* of an earlier failure has returned after a successful refresh, at a
\* clock reading other than zero.
C28_Witness ==
    /\ race.phase = "running"
    /\ now > 0
    /\ race.req[1].pc = "returned"
    /\ race.req[1].token.error = RefreshAccessTokenError
    /\ race.req[1].answer.kind = "json"
    /\ race.req[1].returned.error = NoError
    /\ race.req[1].returned.accessToken = IssuedAccessToken(1)
    /\ race.req[1].returned.refreshToken = IssuedRefreshToken(1)
    /\ race.req[1].returned.expiresAt = now + race.expiresIn[1]

\* The credentials and identifiers held in a session object (provider
\* and error are tags, not credentials).
SessionValues(sess) ==
    {sess.accessToken, sess.user.id, sess.user.orgId, sess.user.webexId}

\* C29: the refresh token never reaches the client-visible session.  For
\* every session token reachable through sign-in and refreshes, the
\* object the session callback returns has accessToken and error and no
\* refreshToken field, none of its values is the refresh token, and the
\* same token with any other refresh token gives the identical session.
C29_SessionHidesRefreshToken ==
    cookie.present
    => LET sess == session(cookie)
       IN  /\ "refreshToken" \notin DOMAIN sess
           /\ "refreshToken" \notin DOMAIN sess.user
           /\ sess.accessToken = cookie.accessToken
           /\ sess.error = cookie.error
           /\ ~Falsy(cookie.refreshToken)
                  => cookie.refreshToken \notin SessionValues(sess)
           /\ \A other \in {Undefined, <<"rt0">>, <<"rt1">>, <<"rt9">>} :
                  session([cookie EXCEPT !.refreshToken = other]) = sess

\* The session token holds a refresh token that a successful refresh has
\* replaced.
C29_Witness ==
    /\ cookie.present
    /\ last.op = "request"
    /\ last.refresh = "ok"
    /\ cookie.refreshToken = <<"rt1">>
    /\ session(cookie).accessToken = <<"at1">>

\* C30: for every prompt, under any interleaving of toggleStar calls,
\* concurrent calls of one user included, starCount equals the number of
\* entries of starredBy and no user id occurs in starredBy more than once.
C30_StarCountMatchesStarredBy ==
    stars.phase = "running"
    => /\ stars.prompt.starCount = Len(stars.prompt.starredBy)
       /\ \A i, j \in 1..Len(stars.prompt.starredBy) :
              stars.prompt.starredBy[i] = stars.prompt.starredBy[j] => i = j

====
